---- MODULE Spec2Model ----
(***************************************************************************)
(* BriarNotifyService: the scheduled-message store (scheduled_messages.json)*)
(* the MessageScheduler background loop, the callers that add and delete    *)
(* messages, and the dead man's switch built on them.                       *)
(*                                                                          *)
(* The store is one JSON file that every operation reads whole and writes   *)
(* whole.  The code takes no lock around a read-modify-write, so each file  *)
(* read and each file write is one step of the model and steps of the loop  *)
(* thread, the request thread and the event-listener thread interleave.     *)
(* Text that is searched (reset words, inbound chat text) is a sequence of  *)
(* characters; titles and contents are only compared and are strings.       *)
(***************************************************************************)
EXTENDS Integers, Sequences, FiniteSets, TLC

VARIABLES
    now,          \* the wall clock, whole seconds (time.time())
    ticks,        \* how often the clock has advanced
    store,        \* the list of messages in scheduled_messages.json
    file_exists,  \* whether scheduled_messages.json exists
    file_corrupt, \* whether the file holds only the beginning of the text of store
    loop,         \* locals of the MessageScheduler._scheduler_loop thread
    thr,          \* locals of the request thread and the event-listener thread
    nextUid,      \* serial number of the next add_message call
    ops,          \* operations started by the callers so far
    delivered,    \* serial numbers of the messages passed to _send_message
    deleted,      \* serial numbers removed by a delete, a reset or a disable
    disabled,     \* reset words whose switch a disable has removed
    running,      \* MessageScheduler.running
    wake_event,   \* whether MessageScheduler.wake_event is set
    unseen,       \* a completed change of the store that no sleep computation has read
    life          \* _scheduler_instance, and the schedulers and loop threads made after the first

vars == <<now, ticks, store, file_exists, file_corrupt, loop, thr, nextUid, ops,
          delivered, deleted, disabled, running, wake_event, unseen, life>>

(***************************************************************************)
(* Bounds of the model.                                                     *)
(***************************************************************************)
MaxTicks == 2
MaxOps == 2
MaxStore == 3

(***************************************************************************)
(* Program constants.                                                       *)
(***************************************************************************)
TwoHours == 2 * 3600
Day == 24 * 3600

TitleTriggered == "Dead Man's Switch - Triggered"
Title24h == "Dead Man's Switch - 24 Hour Warning"
Title2h == "Dead Man's Switch - 2 Hour Warning"
Content24h == "This is a 24-hour warning. The dead man's switch will trigger in 24 hours unless reset with the correct word."
Content2hWithPayload == "evac plan A"

Content2h == "This is a 2-hour warning. The dead man's switch will trigger in 2 hours unless reset with the correct word."

(***************************************************************************)
(* Text: str.lower(), str.strip() and the substring test `a in b`.          *)
(***************************************************************************)
LowerChar(c) ==
    CASE c = "A" -> "a"
      [] c = "B" -> "b"
      [] c = "E" -> "e"
      [] c = "N" -> "n"
      [] c = "D" -> "d"
      [] c = "K" -> "k"
      [] OTHER -> c

Lower(s) == [i \in DOMAIN s |-> LowerChar(s[i])]

RECURSIVE Strip(_)
Strip(s) ==
    IF s = <<>> THEN s
    ELSE IF Head(s) = " " THEN Strip(Tail(s))
    ELSE IF s[Len(s)] = " " THEN Strip(SubSeq(s, 1, Len(s) - 1))
    ELSE s

Contains(sub, s) ==
    \E i \in 0..(Len(s) - Len(sub)) : SubSeq(s, i + 1, i + Len(sub)) = sub

EndWord == <<"e", "n", "d">>

(***************************************************************************)
(* Inputs the callers draw from.                                            *)
(***************************************************************************)
Web == "web"
Evt == "evt"
Threads == {Web, Evt}

NoWord == <<>>
ArmInput(interval_seconds, main_message, reset_word, contact_id) ==
    [interval_seconds |-> interval_seconds, main_message |-> main_message,
     reset_word |-> reset_word, contact_id |-> contact_id]
ArmInputs ==
    {ArmInput(1, "evac plan A", <<"K">>, ""),
     ArmInput(TwoHours + 1, "evac plan A", <<"k">>, "c1"),
     ArmInput(0, "evac plan A", <<"k">>, ""),
     ArmInput(1, "evac plan A", NoWord, "")}
SendTitles == {"note"}
SendContents == {"hello"}
SendDelays == {0, 1}
JsonChoices == {FALSE}
InboundSenders == {"c2"}
InboundTexts == {<<"K">>, <<"k", " ", "e", "n", "d">>}
WideInboundTexts ==
    {<<>>, <<"k">>, <<"K", "b">>, <<"K", " ", "E", "N", "D">>, <<"e", "n", "d">>}
SendWords == {NoWord, <<"k">>}
DeleteWords == {<<"K">>}
TickSteps == {1}
SerialArmInputs ==
    {ArmInput(1, "evac plan A", <<"K">>, ""),
     ArmInput(TwoHours, "hello", <<"k">>, "c1"),
     ArmInput(TwoHours + 1, "evac plan A", <<"k">>, "c1"),
     ArmInput(Day, "hello", <<"K">>, ""),
     ArmInput(Day + 1, "evac plan A", <<"k">>, ""),
     ArmInput(0, "hello", <<"k">>, ""),
     ArmInput(1, "hello", NoWord, "")}

(***************************************************************************)
(* recipients: None (broadcast to all contacts) or a list of names.         *)
(***************************************************************************)
Broadcast == [none |-> TRUE, names |-> <<>>]
To(names) == [none |-> FALSE, names |-> names]
RecipientChoices == {Broadcast}

(***************************************************************************)
(* A stored message: the fields of message_data, and the serial number of   *)
(* the add_message call that built it.  The id is                           *)
(* msg_<int(time.time())>_<hash(title + content) % 10000>; the hash is      *)
(* taken to tell different titles and contents apart.                       *)
(***************************************************************************)
MessageId(time, title, content) == <<time, title, content>>

(***************************************************************************)
(* datetime: whole seconds since the epoch and the microsecond within the   *)
(* second.  int(scheduled_time.timestamp()) drops the microsecond;          *)
(* timedelta arithmetic keeps it.                                           *)
(***************************************************************************)
Microseconds == {0, 500000}

DateTime(seconds, microsecond) == [seconds |-> seconds, microsecond |-> microsecond]

PlusSeconds(dt, n) == [dt EXCEPT !.seconds = @ + n]

TimestampRounded(dt) == IF dt.microsecond >= 500000 THEN dt.seconds + 1 ELSE dt.seconds

Timestamp(dt) == dt.seconds

MessageData(uid, time, a) ==
    [uid |-> uid,
     id |-> MessageId(time, a.title, a.content),
     title |-> a.title,
     content |-> a.content,
     scheduled_timestamp |-> Timestamp(a.scheduled_time),
     recipients |-> a.recipients,
     json_payload |-> a.json_payload,
     dead_mans_switch |-> a.dead_mans_switch,
     reset_word |-> a.reset_word,
     original_interval_seconds |-> a.original_interval_seconds]

AddArgs(title, content, scheduled_time, recipients, json_payload, dms, reset_word, interval) ==
    [title |-> title, content |-> content, scheduled_time |-> scheduled_time,
     recipients |-> recipients, json_payload |-> json_payload,
     dead_mans_switch |-> dms, reset_word |-> reset_word,
     original_interval_seconds |-> interval]

NoMsg == MessageData(0, 0, AddArgs("", "", DateTime(0, 0), Broadcast, FALSE, FALSE, NoWord, 0))

(***************************************************************************)
(* json.load of the file: FileNotFoundError and JSONDecodeError read as the *)
(* empty list.                                                              *)
(***************************************************************************)
ReadableIfExists == file_exists

Readable == file_exists /\ ~file_corrupt

Load == IF Readable THEN store ELSE <<>>

Range(msgs) == {msgs[i] : i \in DOMAIN msgs}
Uids(msgs) == {msgs[i].uid : i \in DOMAIN msgs}

(***************************************************************************)
(* DeadMansSwitch.schedule_dead_mans_switch: the add_message calls it makes,*)
(* in order, for the clock value current_time it read on entry.             *)
(***************************************************************************)
Needs24hWarning(interval_seconds) == interval_seconds > Day

Needs2hWarningAtBoundary(interval_seconds) == interval_seconds >= TwoHours

Needs2hWarning(interval_seconds) == interval_seconds > TwoHours

SwitchRecipients(contact_id) == IF contact_id # "" THEN To(<<contact_id>>) ELSE Broadcast

SchedulePlan(current_time, interval_seconds, main_message, reset_word, contact_id) ==
    LET main_time == PlusSeconds(current_time, interval_seconds)
        warning_24h_time == PlusSeconds(main_time, -Day)
        warning_2h_time == PlusSeconds(main_time, -TwoHours)
        recipients == SwitchRecipients(contact_id)
        word == Lower(reset_word)
    IN  (IF Needs24hWarning(interval_seconds)
         THEN <<AddArgs(Title24h, Content24h, warning_24h_time, recipients, FALSE, TRUE, word, interval_seconds)>>
         ELSE <<>>)
        \o
        (IF Needs2hWarning(interval_seconds)
         THEN <<AddArgs(Title2h, Content2h, warning_2h_time, recipients, FALSE, TRUE, word, interval_seconds)>>
         ELSE <<>>)
        \o
        <<AddArgs(TitleTriggered, main_message, main_time, recipients, FALSE, TRUE, word, interval_seconds)>>

(***************************************************************************)
(* client_api.send and the /broadcast-message route refuse a switch without *)
(* a reset word or with a non-positive interval before they schedule it.    *)
(***************************************************************************)
SwitchInputUnchecked(reset_word, interval_seconds) == TRUE

SwitchInputValid(reset_word, interval_seconds) ==
    ~(reset_word = NoWord \/ interval_seconds <= 0)

(***************************************************************************)
(* DeadMansSwitch.process_incoming_message: the first reset word, in the    *)
(* order the words first occur in the store, that occurs in the text.       *)
(***************************************************************************)
IsActiveSwitchMessage(msg) == msg.dead_mans_switch /\ msg.reset_word # NoWord

MessageStripped(message_text) == Strip(message_text)

MessageLower(message_text) == Strip(Lower(message_text))

MatchIndexOrEnd(messages, message_lower) ==
    LET hits == {i \in DOMAIN messages :
                    /\ IsActiveSwitchMessage(messages[i])
                    /\ \/ Contains(Lower(messages[i].reset_word), message_lower)
                       \/ Contains(EndWord, message_lower)}
    IN  IF hits = {} THEN 0 ELSE CHOOSE i \in hits : \A j \in hits : i <= j

MatchIndex(messages, message_lower) ==
    LET hits == {i \in DOMAIN messages :
                    /\ IsActiveSwitchMessage(messages[i])
                    /\ Contains(Lower(messages[i].reset_word), message_lower)}
    IN  IF hits = {} THEN 0 ELSE CHOOSE i \in hits : \A j \in hits : i <= j

(***************************************************************************)
(* The test both delete-by-reset-word functions apply to a stored message.  *)
(***************************************************************************)
HasResetWordSameCase(msg, reset_word) ==
    msg.dead_mans_switch /\ msg.reset_word = reset_word

HasResetWord(msg, reset_word) ==
    msg.dead_mans_switch /\ Lower(msg.reset_word) = Lower(reset_word)

WithoutSwitchMessages(messages, reset_word) ==
    LET Keep(msg) == ~msg.dead_mans_switch IN SelectSeq(messages, Keep)

WithoutResetWord(messages, reset_word) ==
    LET Keep(msg) == ~HasResetWord(msg, reset_word) IN SelectSeq(messages, Keep)

(***************************************************************************)
(* DeadMansSwitch._get_main_message_content: the content of the first       *)
(* "Triggered" message of the word, "" (None) when there is none.           *)
(***************************************************************************)
IsMainMessage(msg, reset_word) ==
    HasResetWord(msg, reset_word) /\ msg.title = TitleTriggered

GetFirstWordMessageContent(messages, reset_word) ==
    LET hits == {i \in DOMAIN messages : HasResetWord(messages[i], reset_word)}
    IN  IF hits = {} THEN ""
        ELSE messages[CHOOSE i \in hits : \A j \in hits : i <= j].content

GetMainMessageContent(messages, reset_word) ==
    LET hits == {i \in DOMAIN messages : IsMainMessage(messages[i], reset_word)}
    IN  IF hits = {} THEN ""
        ELSE messages[CHOOSE i \in hits : \A j \in hits : i <= j].content

(***************************************************************************)
(* The delivery pass's test for a due message.                              *)
(***************************************************************************)
IsDueWithinOne(msg, current_time) == msg.scheduled_timestamp <= current_time + 1

IsDue(msg, current_time) == msg.scheduled_timestamp <= current_time

(***************************************************************************)
(* The threads' locals.                                                     *)
(***************************************************************************)
LoopIdle ==
    [pc |-> "top", current_time |-> 0, due |-> <<>>, remaining |-> <<>>,
     sleep_time |-> 0, contacts |-> <<>>, attempts |-> <<>>, raised |-> FALSE]

ThreadIdle ==
    [pc |-> "idle", op |-> "none", result |-> "none", confirmation |-> "none",
     plan |-> <<>>, msg |-> NoMsg, messages |-> <<>>, created |-> <<>>,
     start_time |-> 0, current_time |-> 0,
     reset_word |-> NoWord, interval_seconds |-> 0, main_message |-> "",
     contact_id |-> "", text |-> <<>>, message_ids |-> {}, mode |-> "none",
     inbound_messages |-> <<>>, confirmed_to |-> "", deleted_count |-> 0,
     scheduler |-> 0]

(***************************************************************************)
(* The module's _scheduler_instance names the first MessageScheduler, whose *)
(* flags are running and wake_event and whose loop thread is loop; no other *)
(* scheduler and no other loop thread has been made.                        *)
(***************************************************************************)
LifeStart == [instance |-> 1, later |-> <<>>, loops |-> <<>>]

Init ==
    /\ now = 0
    /\ ticks = 0
    /\ store = <<>>
    /\ file_exists = FALSE
    /\ file_corrupt = FALSE
    /\ loop = LoopIdle
    /\ thr = [t \in Threads |-> ThreadIdle]
    /\ nextUid = 1
    /\ ops = 0
    /\ delivered = {}
    /\ deleted = {}
    /\ disabled = {}
    /\ running = TRUE
    /\ wake_event = FALSE
    /\ unseen = FALSE
    /\ life = LifeStart

(***************************************************************************)
(* The clock.                                                               *)
(***************************************************************************)
Tick(steps) ==
    /\ ticks < MaxTicks
    /\ \E d \in steps : now' = now + d
    /\ ticks' = ticks + 1
    /\ UNCHANGED <<store, file_exists, file_corrupt, loop, thr, nextUid, ops, delivered, deleted, disabled, running, wake_event, unseen, life>>

(***************************************************************************)
(* MessageScheduler._scheduler_loop.  A delivery pass reads the clock and   *)
(* loads the file (LoopLoad), calls _send_message for each due message of   *)
(* the loaded list in order (LoopSend), and writes the messages that were   *)
(* not due when at least one was (LoopSave).  Sorting the loaded list into  *)
(* due and remaining touches nothing shared and is part of LoopLoad; a pass *)
(* that finds the file missing, empty or without a due message changes      *)
(* nothing (LoopPassIdle).  After the pass the loop calls _get_sleep_time,  *)
(* which reads the clock and the file again (LoopGetSleepTime), and waits   *)
(* that long on the wake event.  The wait ends by its timeout or by the     *)
(* wake event (LoopWaitReturns: the model does not measure how long the     *)
(* loop has waited, so the wait may end at any time); the loop then clears  *)
(* the event (LoopClear) and tests self.running before the next pass.       *)
(***************************************************************************)
DefaultSleepSeconds == 60

MaxSleepSeconds == 300

MinSleepSeconds == 1

Minimum(S) == CHOOSE x \in S : \A y \in S : x <= y

Lesser(a, b) == IF a <= b THEN a ELSE b

Greater(a, b) == IF a >= b THEN a ELSE b

FutureTimestamps(messages, current_time) ==
    {messages[i].scheduled_timestamp : i \in {j \in DOMAIN messages :
        messages[j].scheduled_timestamp > current_time}}

GetSleepTimeUncapped(exists, messages, current_time) ==
    IF exists /\ FutureTimestamps(messages, current_time) # {}
    THEN Greater(MinSleepSeconds,
                 Minimum(FutureTimestamps(messages, current_time)) - current_time)
    ELSE DefaultSleepSeconds

GetSleepTime(exists, messages, current_time) ==
    IF exists /\ FutureTimestamps(messages, current_time) # {}
    THEN Greater(MinSleepSeconds,
                 Lesser(Minimum(FutureTimestamps(messages, current_time)) - current_time,
                        MaxSleepSeconds))
    ELSE DefaultSleepSeconds

DueMessages(messages, current_time) ==
    LET Due(msg) == IsDue(msg, current_time) IN SelectSeq(messages, Due)

AllMessages(messages, current_time) == messages

RemainingMessages(messages, current_time) ==
    LET NotDue(msg) == ~IsDue(msg, current_time) IN SelectSeq(messages, NotDue)

WhileConditionIgnoringStop == TRUE

WhileCondition == running

LoopLoad ==
    /\ loop.pc = "top"
    /\ WhileCondition
    /\ DueMessages(Load, now) # <<>>
    /\ loop' = [LoopIdle EXCEPT !.pc = "send", !.current_time = now,
                                !.due = DueMessages(Load, now),
                                !.remaining = RemainingMessages(Load, now)]
    /\ UNCHANGED <<now, ticks, store, file_exists, file_corrupt, thr, nextUid, ops, delivered, deleted, disabled, running, wake_event, unseen, life>>

(***************************************************************************)
(* MessageScheduler._send_message for one due message.  get_contacts        *)
(* returns the contact list or None (here <<>>); send_message returns the   *)
(* response or None and raises nothing.  A broadcast is one send_message    *)
(* per contact; a recipient list is one send_message per name that is in    *)
(* the name-to-contact mapping, in the list's order.  An attempt records    *)
(* the name, the contact id and whether send_message returned a response.   *)
(***************************************************************************)
ContactList ==
    <<[contactId |-> "c2", name |-> "ann"], [contactId |-> "c3", name |-> "bob"]>>

SendOutcome(contacts, failing) == [contacts |-> contacts, failing |-> failing]

SendOutcomes == {SendOutcome(ContactList, {})}

WideSendOutcomes ==
    {SendOutcome(ContactList, failing) : failing \in SUBSET {"c2", "c3"}}
        \cup {SendOutcome(<<>>, {})}

NameToContact(contacts) ==
    [name \in {contacts[i].name : i \in DOMAIN contacts} |->
        LET last == CHOOSE i \in DOMAIN contacts :
                        /\ contacts[i].name = name
                        /\ \A j \in DOMAIN contacts : contacts[j].name = name => j <= i
        IN  contacts[last]]

Attempt(name, contact, failing) ==
    [name |-> name, contactId |-> contact.contactId, ok |-> contact.contactId \notin failing]

RECURSIVE SendToNamesUntilFailure(_, _, _)
RECURSIVE SendToNames(_, _, _)
SendToNamesUntilFailure(names, name_to_contact, failing) ==
    IF names = <<>> THEN <<>>
    ELSE IF Head(names) \notin DOMAIN name_to_contact THEN <<>>
    ELSE IF name_to_contact[Head(names)].contactId \in failing
    THEN <<Attempt(Head(names), name_to_contact[Head(names)], failing)>>
    ELSE <<Attempt(Head(names), name_to_contact[Head(names)], failing)>>
            \o SendToNamesUntilFailure(Tail(names), name_to_contact, failing)

SendToNames(names, name_to_contact, failing) ==
    IF names = <<>> THEN <<>>
    ELSE (IF Head(names) \in DOMAIN name_to_contact
          THEN <<Attempt(Head(names), name_to_contact[Head(names)], failing)>>
          ELSE <<>>)
         \o SendToNames(Tail(names), name_to_contact, failing)

SendAttempts(recipients, outcome) ==
    IF outcome.contacts = <<>> THEN <<>>
    ELSE IF recipients.none
    THEN [i \in DOMAIN outcome.contacts |->
            Attempt(outcome.contacts[i].name, outcome.contacts[i], outcome.failing)]
    ELSE SendToNames(recipients.names, NameToContact(outcome.contacts), outcome.failing)

LoopSend(outcomes) ==
    /\ loop.pc = "send"
    /\ delivered' = delivered \cup {Head(loop.due).uid}
    /\ \E outcome \in outcomes :
        loop' = [loop EXCEPT !.due = Tail(@),
                             !.pc = IF Tail(loop.due) = <<>> THEN "save" ELSE "send",
                             !.contacts = outcome.contacts,
                             !.attempts = SendAttempts(Head(loop.due).recipients, outcome)]
    /\ UNCHANGED <<now, ticks, store, file_exists, file_corrupt, thr, nextUid, ops, deleted, disabled, running, wake_event, unseen, life>>

LoopSave ==
    /\ loop.pc = "save"
    /\ store' = loop.remaining
    /\ loop' = [LoopIdle EXCEPT !.pc = "get_sleep_time"]
    /\ file_corrupt' = FALSE
    /\ UNCHANGED <<now, ticks, file_exists, thr, nextUid, ops, delivered, deleted, disabled, running, wake_event, unseen, life>>

LoopPassIdle ==
    /\ loop.pc = "top"
    /\ WhileCondition
    /\ DueMessages(Load, now) = <<>>
    /\ loop' = [LoopIdle EXCEPT !.pc = "get_sleep_time"]
    /\ UNCHANGED <<now, ticks, store, file_exists, file_corrupt, thr, nextUid, ops, delivered, deleted, disabled, running, wake_event, unseen, life>>

LoopGetSleepTime ==
    /\ loop.pc = "get_sleep_time"
    /\ loop' = [LoopIdle EXCEPT !.pc = "wait",
                                !.sleep_time = GetSleepTime(Readable, store, now)]
    /\ unseen' = FALSE
    /\ UNCHANGED <<now, ticks, store, file_exists, file_corrupt, thr, nextUid, ops, delivered, deleted, disabled, running, wake_event, life>>

LoopWaitReturns ==
    /\ loop.pc = "wait"
    /\ loop' = [loop EXCEPT !.pc = "clear"]
    /\ UNCHANGED <<now, ticks, store, file_exists, file_corrupt, thr, nextUid, ops, delivered, deleted, disabled, running, wake_event, unseen, life>>

LoopClear ==
    /\ loop.pc = "clear"
    /\ wake_event' = FALSE
    /\ loop' = LoopIdle
    /\ UNCHANGED <<now, ticks, store, file_exists, file_corrupt, thr, nextUid, ops, delivered, deleted, disabled, running, unseen, life>>

(***************************************************************************)
(* What is left of a call when it returns: which operation it was, the      *)
(* reset word, interval and text it was given, its outcome and the         *)
(* confirmation it sent or the count it reported.  The other locals are     *)
(* gone.                                                                    *)
(***************************************************************************)
Returned(locals, result) ==
    [ThreadIdle EXCEPT !.op = locals.op, !.result = result,
                       !.confirmation = locals.confirmation,
                       !.confirmed_to = locals.confirmed_to,
                       !.reset_word = locals.reset_word,
                       !.text = locals.text,
                       !.deleted_count = locals.deleted_count,
                       !.interval_seconds = locals.interval_seconds]

ArmingElsewhere(t, reset_word) ==
    \E u \in Threads \ {t} :
        /\ thr[u].pc # "idle"
        /\ thr[u].op = "arm"
        /\ Lower(thr[u].reset_word) = Lower(reset_word)

(***************************************************************************)
(* MessageScheduler.add_message, called for the head of the caller's plan:  *)
(* AddRead builds message_data and loads the file, AddWrite writes the      *)
(* loaded list with the message appended.  The comparison of the timestamp  *)
(* with current_time guards no statement: the message is stored either way. *)
(***************************************************************************)
AddRead(t) ==
    /\ thr[t].pc = "add_read"
    /\ thr' = [thr EXCEPT ![t] = [@ EXCEPT !.pc = "add_write",
                                          !.msg = MessageData(nextUid, now, Head(thr[t].plan)),
                                          !.current_time = now,
                                          !.messages = Load]]
    /\ nextUid' = nextUid + 1
    /\ UNCHANGED <<now, ticks, store, file_exists, file_corrupt, loop, ops, delivered, deleted, disabled, running, wake_event, unseen, life>>

AddWrite(t) ==
    /\ thr[t].pc = "add_write"
    /\ store' = Append(thr[t].messages, thr[t].msg)
    /\ file_exists' = TRUE
    /\ file_corrupt' = FALSE
    /\ LET rest == Tail(thr[t].plan)
           added == [thr[t] EXCEPT !.created = Append(@, thr[t].msg), !.plan = rest]
       IN  thr' = [thr EXCEPT ![t] =
                IF rest # <<>> THEN [added EXCEPT !.pc = "add_read"]
                ELSE IF thr[t].op = "inbound" THEN [added EXCEPT !.pc = "confirm", !.result = "ok"]
                ELSE Returned(added, "ok")]
    /\ wake_event' = TRUE
    /\ unseen' = TRUE
    /\ UNCHANGED <<now, ticks, loop, nextUid, ops, delivered, deleted, disabled, running, life>>

(***************************************************************************)
(* add_message raises instead of writing (open(..., 'w') fails: the file is *)
(* left as it was).  schedule_dead_mans_switch catches the exception and    *)
(* returns False, send reports the error; what earlier add_message calls of *)
(* the same operation wrote stays written.                                  *)
(***************************************************************************)
AddFail(t) ==
    /\ thr[t].pc = "add_write"
    /\ thr' = [thr EXCEPT ![t] =
            IF thr[t].op = "inbound"
            THEN [@ EXCEPT !.pc = "confirm", !.result = "error", !.plan = <<>>]
            ELSE Returned(@, "error")]
    /\ UNCHANGED <<now, ticks, store, file_exists, file_corrupt, loop, nextUid, ops, delivered, deleted, disabled, running, wake_event, unseen, life>>

(***************************************************************************)
(* client_api.send with a schedule (and the /broadcast-message route with a *)
(* date): the caller's own check of the time, then add_message.             *)
(***************************************************************************)
SendArgsWithWord(title, content, schedule, recipients, json_payload, reset_word) ==
    AddArgs(title, content, DateTime(schedule, 0), recipients, json_payload, FALSE, reset_word, 0)

SendArgs(title, content, schedule, recipients, json_payload, reset_word) ==
    AddArgs(title, content, DateTime(schedule, 0), recipients, json_payload, FALSE, NoWord, 0)

SendStart(title, content, schedule, recipients, json_payload, reset_word) ==
    /\ thr[Web].pc = "idle"
    /\ ops < MaxOps
    /\ ops' = ops + 1
    /\ LET call == [ThreadIdle EXCEPT !.op = "send", !.start_time = now,
                                      !.reset_word = reset_word]
       IN  thr' = [thr EXCEPT ![Web] =
                IF schedule <= now
                THEN Returned(call, "error")
                ELSE [call EXCEPT !.pc = "add_read",
                                  !.plan = <<SendArgs(title, content, schedule, recipients,
                                                      json_payload, reset_word)>>]]
    /\ UNCHANGED <<now, ticks, store, file_exists, file_corrupt, loop, nextUid, delivered, deleted, disabled, running, wake_event, unseen, life>>

(***************************************************************************)
(* client_api.send with dead_mans_switch (and the route's switch branch):   *)
(* the input check, then schedule_dead_mans_switch reads the clock and      *)
(* makes its add_message calls.                                             *)
(***************************************************************************)
ArmStart(interval_seconds, main_message, reset_word, contact_id) ==
    /\ thr[Web].pc = "idle"
    /\ ops < MaxOps
    /\ ops' = ops + 1
    /\ LET call == [ThreadIdle EXCEPT !.op = "arm", !.start_time = now,
                                      !.interval_seconds = interval_seconds,
                                      !.main_message = main_message,
                                      !.reset_word = reset_word,
                                      !.contact_id = contact_id]
           valid == SwitchInputValid(reset_word, interval_seconds)
       IN  /\ \E microsecond \in Microseconds :
                thr' = [thr EXCEPT ![Web] =
                    IF ~valid
                    THEN Returned(call, "error")
                    ELSE [call EXCEPT !.pc = "add_read",
                                      !.plan = SchedulePlan(DateTime(now, microsecond),
                                                            interval_seconds, main_message,
                                                            reset_word, contact_id)]]
           /\ disabled' = IF valid THEN disabled \ {Lower(reset_word)} ELSE disabled
    /\ UNCHANGED <<now, ticks, store, file_exists, file_corrupt, loop, nextUid, delivered, deleted, running, wake_event, unseen, life>>

(***************************************************************************)
(* The /delete-scheduled-messages route: the checks of message_ids and of   *)
(* the file, the load, then the write of the messages whose id is not in    *)
(* message_ids; deleted_count is the difference of the two lengths.         *)
(***************************************************************************)
WithoutIds(messages, message_ids) ==
    LET Keep(msg) == msg.id \notin message_ids IN SelectSeq(messages, Keep)

DeletedCountOfIds(messages, message_ids) == Cardinality(message_ids)

DeletedCount(messages, message_ids) ==
    Len(messages) - Len(WithoutIds(messages, message_ids))

DeleteIdsStart(message_ids) ==
    /\ thr[Web].pc = "idle"
    /\ ops < MaxOps
    /\ ops' = ops + 1
    /\ LET call == [ThreadIdle EXCEPT !.op = "delete_ids", !.message_ids = message_ids]
       IN  thr' = [thr EXCEPT ![Web] =
                IF message_ids = {} \/ ~Readable
                THEN Returned(call, "error")
                ELSE [call EXCEPT !.pc = "delete_ids_write", !.messages = store]]
    /\ UNCHANGED <<now, ticks, store, file_exists, file_corrupt, loop, nextUid, delivered, deleted, disabled, running, wake_event, unseen, life>>

DeleteIdsWrite ==
    /\ thr[Web].pc = "delete_ids_write"
    /\ LET kept == WithoutIds(thr[Web].messages, thr[Web].message_ids)
       IN  /\ store' = kept
           /\ deleted' = deleted \cup (Uids(thr[Web].messages) \ Uids(kept))
    /\ thr' = [thr EXCEPT ![Web] =
            Returned([@ EXCEPT !.deleted_count =
                            DeletedCount(thr[Web].messages, thr[Web].message_ids)],
                     "ok")]
    /\ file_corrupt' = FALSE
    /\ UNCHANGED <<now, ticks, file_exists, loop, nextUid, ops, delivered, disabled, running, wake_event, unseen, life>>

(***************************************************************************)
(* MessageScheduler.delete_messages_by_reset_word: the load, then the write *)
(* followed by self.wake_event.set().                                       *)
(***************************************************************************)
WakeLeftByDelete == wake_event

WakeSetByDelete == TRUE

DeleteWordStart(reset_word) ==
    /\ thr[Web].pc = "idle"
    /\ ops < MaxOps
    /\ ops' = ops + 1
    /\ LET call == [ThreadIdle EXCEPT !.op = "delete_word", !.reset_word = reset_word]
       IN  thr' = [thr EXCEPT ![Web] =
                IF ~Readable
                THEN Returned(call, "ok")
                ELSE [call EXCEPT !.pc = "delete_word_write", !.messages = store]]
    /\ UNCHANGED <<now, ticks, store, file_exists, file_corrupt, loop, nextUid, delivered, deleted, disabled, running, wake_event, unseen, life>>

DeleteWordWrite ==
    /\ thr[Web].pc = "delete_word_write"
    /\ LET kept == WithoutResetWord(thr[Web].messages, thr[Web].reset_word)
       IN  /\ store' = kept
           /\ deleted' = deleted \cup (Uids(thr[Web].messages) \ Uids(kept))
    /\ thr' = [thr EXCEPT ![Web] = Returned(@, "ok")]
    /\ wake_event' = WakeSetByDelete
    /\ unseen' = (unseen \/ store' # store)
    /\ file_corrupt' = FALSE
    /\ UNCHANGED <<now, ticks, file_exists, loop, nextUid, ops, delivered, disabled, running, life>>

(***************************************************************************)
(* DeadMansSwitch.process_incoming_message, on the event-listener thread.   *)
(* InboundStart loads the store and looks for a reset word in the text;     *)
(* a reset then reads the main message's content (GetContent); both reset   *)
(* and disable delete the word's messages (DmsDeleteRead, DmsDeleteWrite);  *)
(* a reset schedules the switch again (Reschedule, then add_message);       *)
(* Confirm sends the confirmation to the sender.                            *)
(***************************************************************************)
InboundStart(contact_id, message_text) ==
    /\ thr[Evt].pc = "idle"
    /\ ops < MaxOps
    /\ ops' = ops + 1
    /\ LET call == [ThreadIdle EXCEPT !.op = "inbound", !.contact_id = contact_id,
                                      !.text = message_text]
           message_lower == MessageLower(message_text)
           messages == store
           found == MatchIndex(messages, message_lower)
       IN  thr' = [thr EXCEPT ![Evt] =
                IF message_text = <<>> \/ ~Readable \/ found = 0
                THEN Returned(call, "none")
                ELSE [call EXCEPT
                        !.inbound_messages = messages,
                        !.reset_word = Lower(messages[found].reset_word),
                        !.interval_seconds = messages[found].original_interval_seconds,
                        !.mode = IF Contains(EndWord, message_lower) THEN "disable" ELSE "reset",
                        !.pc = IF Contains(EndWord, message_lower) THEN "delete_read"
                               ELSE "get_content"]]
    /\ UNCHANGED <<now, ticks, store, file_exists, file_corrupt, loop, nextUid, delivered, deleted, disabled, running, wake_event, unseen, life>>

GetContent ==
    /\ thr[Evt].pc = "get_content"
    /\ LET original_content == GetMainMessageContent(Load, thr[Evt].reset_word)
       IN  thr' = [thr EXCEPT ![Evt] =
                IF original_content = ""
                THEN [@ EXCEPT !.pc = "confirm", !.result = "error"]
                ELSE [@ EXCEPT !.pc = "delete_read", !.main_message = original_content]]
    /\ UNCHANGED <<now, ticks, store, file_exists, file_corrupt, loop, nextUid, ops, delivered, deleted, disabled, running, wake_event, unseen, life>>

DmsDeleteRead ==
    /\ thr[Evt].pc = "delete_read"
    /\ thr' = [thr EXCEPT ![Evt] =
            IF Readable
            THEN [@ EXCEPT !.pc = "delete_write", !.messages = store]
            ELSE IF thr[Evt].mode = "disable"
            THEN [@ EXCEPT !.pc = "confirm", !.result = "ok"]
            ELSE [@ EXCEPT !.pc = "reschedule"]]
    /\ UNCHANGED <<now, ticks, store, file_exists, file_corrupt, loop, nextUid, ops, delivered, deleted, disabled, running, wake_event, unseen, life>>

DmsDeleteWrite ==
    /\ thr[Evt].pc = "delete_write"
    /\ LET kept == WithoutResetWord(thr[Evt].messages, thr[Evt].reset_word)
       IN  /\ store' = kept
           /\ deleted' = deleted \cup (Uids(thr[Evt].messages) \ Uids(kept))
    /\ thr' = [thr EXCEPT ![Evt] =
            IF thr[Evt].mode = "disable"
            THEN [@ EXCEPT !.pc = "confirm", !.result = "ok", !.messages = <<>>]
            ELSE [@ EXCEPT !.pc = "reschedule", !.messages = <<>>]]
    /\ disabled' = IF thr[Evt].mode = "disable" /\ ~ArmingElsewhere(Evt, thr[Evt].reset_word)
                   THEN disabled \cup {thr[Evt].reset_word}
                   ELSE disabled
    /\ unseen' = (unseen \/ store' # store)
    /\ file_corrupt' = FALSE
    /\ UNCHANGED <<now, ticks, file_exists, loop, nextUid, ops, delivered, running, wake_event, life>>

Reschedule ==
    /\ thr[Evt].pc = "reschedule"
    /\ \E microsecond \in Microseconds :
        thr' = [thr EXCEPT ![Evt] =
            [@ EXCEPT !.pc = "add_read", !.start_time = now,
                      !.plan = SchedulePlan(DateTime(now, microsecond),
                                            thr[Evt].interval_seconds,
                                            thr[Evt].main_message, thr[Evt].reset_word,
                                            thr[Evt].contact_id)]]
    /\ disabled' = disabled \ {thr[Evt].reset_word}
    /\ UNCHANGED <<now, ticks, store, file_exists, file_corrupt, loop, nextUid, ops, delivered, deleted, running, wake_event, unseen, life>>

ConfirmationTextOfSuccess(mode, result) ==
    IF mode = "disable" THEN "Dead man's switch has been permanently disabled."
    ELSE "Dead man's switch has been reset and timer restarted."

ConfirmationText(mode, result) ==
    IF mode = "disable"
    THEN IF result = "ok" THEN "Dead man's switch has been permanently disabled."
         ELSE "Failed to disable dead man's switch."
    ELSE IF result = "ok" THEN "Dead man's switch has been reset and timer restarted."
         ELSE "Failed to reset dead man's switch."

Confirm ==
    /\ thr[Evt].pc = "confirm"
    /\ thr' = [thr EXCEPT ![Evt] =
            Returned([@ EXCEPT !.confirmation = ConfirmationText(thr[Evt].mode, thr[Evt].result),
                               !.confirmed_to = thr[Evt].contact_id],
                     thr[Evt].result)]
    /\ UNCHANGED <<now, ticks, store, file_exists, file_corrupt, loop, nextUid, ops, delivered, deleted, disabled, running, wake_event, unseen, life>>

(***************************************************************************)
(* The operations the callers start, with the inputs they draw.             *)
(***************************************************************************)
Send ==
    \E title \in SendTitles, content \in SendContents, d \in SendDelays,
       recipients \in RecipientChoices, json_payload \in JsonChoices,
       reset_word \in SendWords :
        SendStart(title, content, now + d, recipients, json_payload, reset_word)

Arm(inputs) ==
    \E a \in inputs :
        ArmStart(a.interval_seconds, a.main_message, a.reset_word, a.contact_id)

DeleteIds ==
    \E message_ids \in {{}} \cup {{msg.id} : msg \in Range(store)} :
        DeleteIdsStart(message_ids)

DeleteWord == \E reset_word \in DeleteWords : DeleteWordStart(reset_word)

Inbound(texts) ==
    \E contact_id \in InboundSenders, message_text \in texts :
        InboundStart(contact_id, message_text)

Add == \E t \in Threads : AddRead(t) \/ AddWrite(t) \/ AddFail(t)

Step(arm_inputs, tick_steps) ==
    \/ Tick(tick_steps)
    \/ LoopLoad
    \/ LoopSend(SendOutcomes)
    \/ LoopSave
    \/ LoopPassIdle
    \/ LoopGetSleepTime
    \/ LoopWaitReturns
    \/ LoopClear
    \/ Send
    \/ Arm(arm_inputs)
    \/ DeleteIds
    \/ DeleteIdsWrite
    \/ DeleteWord
    \/ DeleteWordWrite
    \/ Inbound(InboundTexts)
    \/ GetContent
    \/ DmsDeleteRead
    \/ DmsDeleteWrite
    \/ Reschedule
    \/ Confirm
    \/ Add

Next == Step(ArmInputs, TickSteps)

Spec == Init /\ [][Next]_vars

(***************************************************************************)
(* The threads run and the loop keeps making passes: the scheduling the     *)
(* operating system gives the loop thread and a caller inside a call.       *)
(***************************************************************************)
LoopStep ==
    LoopLoad \/ LoopSend(SendOutcomes) \/ LoopSave \/ LoopPassIdle \/ LoopGetSleepTime
        \/ LoopWaitReturns \/ LoopClear

CallStep ==
    \/ Add
    \/ DeleteIdsWrite
    \/ DeleteWordWrite
    \/ GetContent
    \/ DmsDeleteRead
    \/ DmsDeleteWrite
    \/ Reschedule
    \/ Confirm

FairSpec == Spec /\ WF_vars(LoopStep) /\ WF_vars(CallStep)

(***************************************************************************)
(* The same operations with one thread inside an operation at a time: what  *)
(* each operation does when nothing interleaves with it.  The clock still   *)
(* advances at any point.                                                   *)
(***************************************************************************)
Quiet ==
    /\ loop.pc \in {"top", "wait", "clear", "sleep", "exit"}
    /\ \A t \in Threads : thr[t].pc = "idle"

SerialNext ==
    \/ Tick(TickSteps)
    \/ Quiet /\ LoopLoad
    \/ LoopSend(SendOutcomes)
    \/ LoopSave
    \/ Quiet /\ LoopPassIdle
    \/ LoopGetSleepTime
    \/ LoopWaitReturns
    \/ LoopClear
    \/ Quiet /\ Send
    \/ Quiet /\ Arm(SerialArmInputs)
    \/ Quiet /\ DeleteIds
    \/ DeleteIdsWrite
    \/ Quiet /\ DeleteWord
    \/ DeleteWordWrite
    \/ Quiet /\ Inbound(InboundTexts)
    \/ GetContent
    \/ DmsDeleteRead
    \/ DmsDeleteWrite
    \/ Reschedule
    \/ Confirm
    \/ Add

SerialSpec == Init /\ [][SerialNext]_vars

SerialFairSpec ==
    SerialSpec /\ WF_vars((Quiet /\ (LoopLoad \/ LoopPassIdle)) \/ LoopSend(SendOutcomes) \/ LoopSave
                            \/ LoopGetSleepTime \/ LoopWaitReturns \/ LoopClear)
               /\ WF_vars(CallStep)

(***************************************************************************)
(* The deletes by reset word, the inbound texts and the loop's passes on a  *)
(* given store: the store starts as any list of at most MaxStore messages   *)
(* of the kinds the operations write (a switch's 2-hour warning and         *)
(* trigger, another switch's trigger, two plain scheduled messages), or     *)
(* with the file absent, and the callers run                                *)
(* MessageScheduler.delete_messages_by_reset_word and                       *)
(* process_incoming_message, and the loop its passes, one after the other.  *)
(***************************************************************************)
StoredKinds ==
    Range(SchedulePlan(DateTime(0, 0), TwoHours + 1, "evac plan A", <<"K">>, ""))
        \cup Range(SchedulePlan(DateTime(0, 0), 1, "hello", <<"B">>, "c1"))
        \cup {AddArgs("note", "hello", DateTime(1, 0), Broadcast, FALSE, FALSE, NoWord, 0),
              AddArgs("note", "later", DateTime(200, 0), Broadcast, FALSE, FALSE, NoWord, 0)}

StoresOf(kinds) ==
    {[i \in DOMAIN ks |-> MessageData(i, 0, ks[i])] :
        ks \in UNION {[1..n -> kinds] : n \in 0..MaxStore}}

StoredInit ==
    /\ now = 0
    /\ ticks = 0
    /\ \/ file_exists = FALSE /\ store = <<>>
       \/ file_exists = TRUE /\ store \in StoresOf(StoredKinds)
    /\ file_corrupt = FALSE
    /\ loop = LoopIdle
    /\ thr = [t \in Threads |-> ThreadIdle]
    /\ nextUid = Len(store) + 1
    /\ ops = 0
    /\ delivered = {}
    /\ deleted = {}
    /\ disabled = {}
    /\ running = TRUE
    /\ wake_event = FALSE
    /\ unseen = FALSE
    /\ life = LifeStart

StoredNext ==
    \/ Tick(TickSteps)
    \/ Quiet /\ LoopLoad
    \/ LoopSend(SendOutcomes)
    \/ LoopSave
    \/ Quiet /\ LoopPassIdle
    \/ LoopGetSleepTime
    \/ LoopWaitReturns
    \/ LoopClear
    \/ Quiet /\ DeleteWord
    \/ DeleteWordWrite
    \/ Quiet /\ Inbound(InboundTexts)
    \/ GetContent
    \/ DmsDeleteRead
    \/ DmsDeleteWrite
    \/ Reschedule
    \/ Confirm
    \/ Add

StoredSpec == StoredInit /\ [][StoredNext]_vars

(***************************************************************************)
(* process_incoming_message on a given store, for texts that are empty,     *)
(* name one reset word, name two, carry "end" with a word and without one,  *)
(* in either letter case: the calls run one after the other, and the loop   *)
(* makes its passes between them.                                           *)
(***************************************************************************)
InboundNext ==
    \/ Tick(TickSteps)
    \/ Quiet /\ LoopLoad
    \/ LoopSend(SendOutcomes)
    \/ LoopSave
    \/ Quiet /\ LoopPassIdle
    \/ LoopGetSleepTime
    \/ LoopWaitReturns
    \/ LoopClear
    \/ Quiet /\ Inbound(WideInboundTexts)
    \/ GetContent
    \/ DmsDeleteRead
    \/ DmsDeleteWrite
    \/ Reschedule
    \/ Confirm
    \/ Add

InboundSpec == StoredInit /\ [][InboundNext]_vars

(***************************************************************************)
(* The loop's passes over a given store of plain messages, addressed to     *)
(* lists of names that resolve, to a list whose first name resolves to no   *)
(* contact, and to all contacts, with get_contacts and send_message         *)
(* succeeding or failing per contact, while the request thread deletes      *)
(* messages by id.                                                          *)
(***************************************************************************)
DeliveryKinds ==
    {AddArgs("note", "hello", DateTime(1, 0), To(<<"ann", "bob">>), FALSE, FALSE, NoWord, 0),
     AddArgs("note", "hello", DateTime(1, 0), To(<<"zed", "bob">>), FALSE, FALSE, NoWord, 0),
     AddArgs("note", "hello", DateTime(2, 0), Broadcast, FALSE, FALSE, NoWord, 0),
     AddArgs("note", "later", DateTime(200, 0), To(<<"bob">>), FALSE, FALSE, NoWord, 0)}

DeliveryInit ==
    /\ now = 0
    /\ ticks = 0
    /\ \/ file_exists = FALSE /\ store = <<>>
       \/ file_exists = TRUE /\ store \in StoresOf(DeliveryKinds)
    /\ file_corrupt = FALSE
    /\ loop = LoopIdle
    /\ thr = [t \in Threads |-> ThreadIdle]
    /\ nextUid = Len(store) + 1
    /\ ops = 0
    /\ delivered = {}
    /\ deleted = {}
    /\ disabled = {}
    /\ running = TRUE
    /\ wake_event = FALSE
    /\ unseen = FALSE
    /\ life = LifeStart

DeliveryNext ==
    \/ Tick(TickSteps)
    \/ LoopLoad
    \/ LoopSend(WideSendOutcomes)
    \/ LoopSave
    \/ LoopPassIdle
    \/ LoopGetSleepTime
    \/ LoopWaitReturns
    \/ LoopClear
    \/ DeleteIds
    \/ DeleteIdsWrite

DeliverySpec == DeliveryInit /\ [][DeliveryNext]_vars

(***************************************************************************)
(* MessageScheduler.stop, called on the request thread: StopStart tests and *)
(* clears self.running, StopSet sets the wake event, StopJoin is the join   *)
(* on the loop thread, which returns when the thread has ended or after     *)
(* its timeout of 5 seconds.  The loop leaves its while statement when it   *)
(* finds self.running false (LoopExit).  An exception inside the try block  *)
(* (the load or the write of the file failing, a stored message without     *)
(* scheduled_timestamp) sends the loop into time.sleep(default_sleep_       *)
(* seconds) (LoopFail) and from there back to the while test                *)
(* (LoopSleepEnds).                                                         *)
(***************************************************************************)
RunningKeptByStop == running

RunningAfterStop == FALSE

StopStart ==
    /\ thr[Web].pc = "idle"
    /\ ops < MaxOps
    /\ ops' = ops + 1
    /\ LET call == [ThreadIdle EXCEPT !.op = "stop"]
       IN  thr' = [thr EXCEPT ![Web] =
                IF ~running THEN Returned(call, "ok")
                ELSE [call EXCEPT !.pc = "stop_set"]]
    /\ running' = RunningAfterStop
    /\ UNCHANGED <<now, ticks, store, file_exists, file_corrupt, loop, nextUid, delivered, deleted, disabled, wake_event, unseen, life>>

StopSet ==
    /\ thr[Web].pc = "stop_set"
    /\ wake_event' = TRUE
    /\ thr' = [thr EXCEPT ![Web] = [@ EXCEPT !.pc = "stop_join"]]
    /\ UNCHANGED <<now, ticks, store, file_exists, file_corrupt, loop, nextUid, ops, delivered, deleted, disabled, running, unseen, life>>

StopJoin ==
    /\ thr[Web].pc = "stop_join"
    /\ thr' = [thr EXCEPT ![Web] = Returned(@, "ok")]
    /\ UNCHANGED <<now, ticks, store, file_exists, file_corrupt, loop, nextUid, ops, delivered, deleted, disabled, running, wake_event, unseen, life>>

LoopExit ==
    /\ loop.pc = "top"
    /\ ~WhileCondition
    /\ loop' = [LoopIdle EXCEPT !.pc = "exit"]
    /\ UNCHANGED <<now, ticks, store, file_exists, file_corrupt, thr, nextUid, ops, delivered, deleted, disabled, running, wake_event, unseen, life>>

LoopFail ==
    /\ \/ loop.pc = "top" /\ WhileCondition
       \/ loop.pc \in {"save", "get_sleep_time"}
    /\ loop' = [LoopIdle EXCEPT !.pc = "sleep"]
    /\ UNCHANGED <<now, ticks, store, file_exists, file_corrupt, thr, nextUid, ops, delivered, deleted, disabled, running, wake_event, unseen, life>>

LoopSleepEnds ==
    /\ loop.pc = "sleep"
    /\ loop' = LoopIdle
    /\ UNCHANGED <<now, ticks, store, file_exists, file_corrupt, thr, nextUid, ops, delivered, deleted, disabled, running, wake_event, unseen, life>>

(***************************************************************************)
(* The scheduler with its callers adding plain messages and stopping it:    *)
(* the loop's whole life, from its start in get_scheduler to its exit.      *)
(***************************************************************************)
LifecycleLoopStep == LoopStep \/ LoopExit \/ LoopSleepEnds

StopStep == StopSet \/ StopJoin

LifecycleNext ==
    \/ Tick(TickSteps)
    \/ LoopLoad
    \/ LoopSend(SendOutcomes)
    \/ LoopSave
    \/ LoopPassIdle
    \/ LoopGetSleepTime
    \/ LoopWaitReturns
    \/ LoopClear
    \/ LoopExit
    \/ LoopFail
    \/ LoopSleepEnds
    \/ Send
    \/ Add
    \/ StopStart
    \/ StopSet
    \/ StopJoin

LifecycleSpec == Init /\ [][LifecycleNext]_vars

LifecycleFairSpec ==
    LifecycleSpec /\ WF_vars(LifecycleLoopStep) /\ WF_vars(StopStep) /\ WF_vars(Add)

(***************************************************************************)
(* More than one scheduler and more than one loop thread.  start() returns  *)
(* when self.running is set; otherwise it sets the flag and starts a new    *)
(* thread on _scheduler_loop, whatever became of the thread started before. *)
(* stop() returns when the flag is clear; otherwise it clears the flag and  *)
(* sets the wake event (StopOf) and joins self.thread, the thread started   *)
(* last, for at most 5 seconds (Join): the join returns when that thread    *)
(* has ended, or by its timeout when the thread is inside _send_message,    *)
(* whose requests to the Briar API wait up to 10 seconds each.              *)
(* get_scheduler makes and starts a MessageScheduler when                   *)
(* _scheduler_instance is None; stop_scheduler stops the instance and sets  *)
(* _scheduler_instance to None.  A caller holds the scheduler it got from   *)
(* get_scheduler (app.py, DeadMansSwitch.scheduler) and may call start or   *)
(* stop on it at any time.  The first scheduler's flags are running and     *)
(* wake_event and its first thread is loop; life.later holds the flags of   *)
(* the schedulers made after it, life.loops the threads started after the   *)
(* first, each running _scheduler_loop on the scheduler that started it.    *)
(***************************************************************************)
Schedulers == 1..(Len(life.later) + 1)

RunningOf(i) == IF i = 1 THEN running ELSE life.later[i - 1].running

NewLoop(i) ==
    [scheduler |-> i, pc |-> "top", current_time |-> 0, due |-> <<>>, remaining |-> <<>>,
     sleep_time |-> 0]

SetFlags(later, i, flag, event) ==
    [j \in DOMAIN later |->
        IF j = i - 1 THEN [running |-> flag, wake_event |-> event] ELSE later[j]]

LifeCall(op) ==
    /\ thr[Web].pc = "idle"
    /\ ops < MaxOps
    /\ ops' = ops + 1
    /\ thr' = [thr EXCEPT ![Web] = Returned([ThreadIdle EXCEPT !.op = op], "ok")]

StartCall ==
    /\ LifeCall("start")
    /\ \E i \in Schedulers :
        IF RunningOf(i)
        THEN UNCHANGED <<running, life>>
        ELSE /\ running' = (IF i = 1 THEN TRUE ELSE running)
             /\ life' = [life EXCEPT
                            !.later = SetFlags(@, i, TRUE,
                                               IF i = 1 THEN FALSE ELSE @[i - 1].wake_event),
                            !.loops = Append(@, NewLoop(i))]
    /\ UNCHANGED <<now, ticks, store, file_exists, file_corrupt, loop, nextUid, delivered, deleted, disabled, wake_event, unseen>>

ThreadOf(i) ==
    LET started == {k \in DOMAIN life.loops : life.loops[k].scheduler = i}
    IN  IF started = {} THEN loop
        ELSE life.loops[CHOOSE k \in started : \A j \in started : j <= k]

StopOf(call, i) ==
    /\ thr[Web].pc = "idle"
    /\ ops < MaxOps
    /\ ops' = ops + 1
    /\ IF RunningOf(i)
       THEN /\ running' = (IF i = 1 THEN FALSE ELSE running)
            /\ wake_event' = (IF i = 1 THEN TRUE ELSE wake_event)
            /\ life' = [life EXCEPT !.later = SetFlags(@, i, FALSE, TRUE)]
            /\ thr' = [thr EXCEPT ![Web] = [call EXCEPT !.pc = "join", !.scheduler = i]]
       ELSE /\ UNCHANGED <<running, wake_event>>
            /\ life' = [life EXCEPT !.instance =
                            IF call.op = "stop_scheduler" THEN 0 ELSE @]
            /\ thr' = [thr EXCEPT ![Web] = Returned(call, "ok")]
    /\ UNCHANGED <<now, ticks, store, file_exists, file_corrupt, loop, nextUid, delivered, deleted, disabled, unseen>>

StopCall ==
    \E i \in Schedulers : StopOf([ThreadIdle EXCEPT !.op = "stop"], i)

Join ==
    /\ thr[Web].pc = "join"
    /\ ThreadOf(thr[Web].scheduler).pc \in {"exit", "send"}
    /\ life' = [life EXCEPT !.instance =
                    IF thr[Web].op = "stop_scheduler" THEN 0 ELSE @]
    /\ thr' = [thr EXCEPT ![Web] = Returned(@, "ok")]
    /\ UNCHANGED <<now, ticks, store, file_exists, file_corrupt, loop, nextUid, ops, delivered, deleted, disabled, running, wake_event, unseen>>

GetScheduler ==
    /\ LifeCall("get_scheduler")
    /\ IF life.instance # 0
       THEN UNCHANGED life
       ELSE LET made == Len(life.later) + 2
            IN  life' = [instance |-> made,
                         later |-> Append(life.later, [running |-> TRUE, wake_event |-> FALSE]),
                         loops |-> Append(life.loops, NewLoop(made))]
    /\ UNCHANGED <<now, ticks, store, file_exists, file_corrupt, loop, nextUid, delivered, deleted, disabled, running, wake_event, unseen>>

StopScheduler ==
    IF life.instance = 0
    THEN /\ LifeCall("stop_scheduler")
         /\ UNCHANGED <<now, ticks, store, file_exists, file_corrupt, loop, nextUid, delivered, deleted, disabled, running, wake_event, unseen, life>>
    ELSE StopOf([ThreadIdle EXCEPT !.op = "stop_scheduler"], life.instance)

(***************************************************************************)
(* _scheduler_loop on a thread started after the first: the same steps as   *)
(* the first thread's, on the flags of the scheduler that started it.       *)
(***************************************************************************)
LaterLoad(k) ==
    /\ life.loops[k].pc = "top"
    /\ RunningOf(life.loops[k].scheduler)
    /\ DueMessages(Load, now) # <<>>
    /\ life' = [life EXCEPT !.loops[k] =
                    [@ EXCEPT !.pc = "send", !.current_time = now,
                              !.due = DueMessages(Load, now),
                              !.remaining = RemainingMessages(Load, now)]]
    /\ UNCHANGED <<now, ticks, store, file_exists, file_corrupt, loop, thr, nextUid, ops, delivered, deleted, disabled, running, wake_event, unseen>>

LaterSend(k) ==
    /\ life.loops[k].pc = "send"
    /\ delivered' = delivered \cup {Head(life.loops[k].due).uid}
    /\ life' = [life EXCEPT !.loops[k] =
                    [@ EXCEPT !.due = Tail(@),
                              !.pc = IF Tail(life.loops[k].due) = <<>> THEN "save" ELSE "send"]]
    /\ UNCHANGED <<now, ticks, store, file_exists, file_corrupt, loop, thr, nextUid, ops, deleted, disabled, running, wake_event, unseen>>

LaterSave(k) ==
    /\ life.loops[k].pc = "save"
    /\ store' = life.loops[k].remaining
    /\ file_corrupt' = FALSE
    /\ life' = [life EXCEPT !.loops[k] =
                    [NewLoop(@.scheduler) EXCEPT !.pc = "get_sleep_time"]]
    /\ UNCHANGED <<now, ticks, file_exists, loop, thr, nextUid, ops, delivered, deleted, disabled, running, wake_event, unseen>>

LaterPassIdle(k) ==
    /\ life.loops[k].pc = "top"
    /\ RunningOf(life.loops[k].scheduler)
    /\ DueMessages(Load, now) = <<>>
    /\ life' = [life EXCEPT !.loops[k] = [@ EXCEPT !.pc = "get_sleep_time"]]
    /\ UNCHANGED <<now, ticks, store, file_exists, file_corrupt, loop, thr, nextUid, ops, delivered, deleted, disabled, running, wake_event, unseen>>

LaterGetSleepTime(k) ==
    /\ life.loops[k].pc = "get_sleep_time"
    /\ life' = [life EXCEPT !.loops[k] =
                    [@ EXCEPT !.pc = "wait",
                              !.sleep_time = GetSleepTime(Readable, store, now)]]
    /\ UNCHANGED <<now, ticks, store, file_exists, file_corrupt, loop, thr, nextUid, ops, delivered, deleted, disabled, running, wake_event, unseen>>

LaterWaitReturns(k) ==
    /\ life.loops[k].pc = "wait"
    /\ life' = [life EXCEPT !.loops[k] = [@ EXCEPT !.pc = "clear"]]
    /\ UNCHANGED <<now, ticks, store, file_exists, file_corrupt, loop, thr, nextUid, ops, delivered, deleted, disabled, running, wake_event, unseen>>

LaterClear(k) ==
    /\ life.loops[k].pc = "clear"
    /\ LET i == life.loops[k].scheduler
       IN  /\ wake_event' = (IF i = 1 THEN FALSE ELSE wake_event)
           /\ life' = [life EXCEPT
                          !.later = SetFlags(@, i, IF i = 1 THEN FALSE ELSE @[i - 1].running,
                                             FALSE),
                          !.loops[k] = NewLoop(i)]
    /\ UNCHANGED <<now, ticks, store, file_exists, file_corrupt, loop, thr, nextUid, ops, delivered, deleted, disabled, running, unseen>>

LaterExit(k) ==
    /\ life.loops[k].pc = "top"
    /\ ~RunningOf(life.loops[k].scheduler)
    /\ life' = [life EXCEPT !.loops[k] = [@ EXCEPT !.pc = "exit"]]
    /\ UNCHANGED <<now, ticks, store, file_exists, file_corrupt, loop, thr, nextUid, ops, delivered, deleted, disabled, running, wake_event, unseen>>

(***************************************************************************)
(* The schedulers' lives over a given store of plain messages: the callers  *)
(* start and stop the schedulers they hold and call get_scheduler and       *)
(* stop_scheduler, and every loop thread makes its passes.  At the start    *)
(* the first scheduler is running, or stop_scheduler has stopped it, its    *)
(* loop has ended and get_scheduler has made and started the second.        *)
(***************************************************************************)
LoopsInit ==
    /\ now = 0
    /\ ticks = 0
    /\ file_exists = TRUE
    /\ store \in StoresOf(
            {AddArgs("note", "hello", DateTime(1, 0), Broadcast, FALSE, FALSE, NoWord, 0),
            AddArgs("note", "later", DateTime(200, 0), Broadcast, FALSE, FALSE, NoWord, 0)})
    /\ file_corrupt = FALSE
    /\ thr = [t \in Threads |-> ThreadIdle]
    /\ nextUid = Len(store) + 1
    /\ ops = 0
    /\ delivered = {}
    /\ deleted = {}
    /\ disabled = {}
    /\ \/ running = TRUE /\ wake_event = FALSE /\ loop = LoopIdle /\ life = LifeStart
       \/ /\ running = FALSE
          /\ wake_event = TRUE
          /\ loop = [LoopIdle EXCEPT !.pc = "exit"]
          /\ life = [instance |-> 2,
                     later |-> <<[running |-> TRUE, wake_event |-> FALSE]>>,
                     loops |-> <<NewLoop(2)>>]
    /\ unseen = FALSE

LoopsNext ==
    \/ Tick(TickSteps)
    \/ LoopLoad
    \/ LoopSend(SendOutcomes)
    \/ LoopSave
    \/ LoopPassIdle
    \/ LoopGetSleepTime
    \/ LoopWaitReturns
    \/ LoopClear
    \/ LoopExit
    \/ StartCall
    \/ StopCall
    \/ Join
    \/ GetScheduler
    \/ StopScheduler
    \/ \E k \in DOMAIN life.loops : LaterLoad(k)
    \/ \E k \in DOMAIN life.loops : LaterSend(k)
    \/ \E k \in DOMAIN life.loops : LaterSave(k)
    \/ \E k \in DOMAIN life.loops : LaterPassIdle(k)
    \/ \E k \in DOMAIN life.loops : LaterGetSleepTime(k)
    \/ \E k \in DOMAIN life.loops : LaterWaitReturns(k)
    \/ \E k \in DOMAIN life.loops : LaterClear(k)
    \/ \E k \in DOMAIN life.loops : LaterExit(k)

LoopsSpec == LoopsInit /\ [][LoopsNext]_vars

(***************************************************************************)
(* A write of the file that fails.  Every writer opens the file with        *)
(* open(path, 'w'), which empties it, and json.dump then writes the text    *)
(* piece by piece: a write that fails at the open leaves the file as it     *)
(* was, one that fails later (the disk is full, the process is killed)      *)
(* leaves the beginning of the text of the list it was writing, which      *)
(* json.load rejects.  add_message lets the exception pass to its       *)
(* caller, the loop's try block catches the one of its pass, the two        *)
(* deletes catch theirs and return failure.  AddFail is the add_message     *)
(* write failing at the open.                                               *)
(***************************************************************************)
WriteFails(cut, messages) ==
    IF cut
    THEN file_exists' = TRUE /\ file_corrupt' = TRUE /\ store' = messages
    ELSE UNCHANGED <<store, file_exists, file_corrupt>>

AddBreaks(t) ==
    /\ thr[t].pc = "add_write"
    /\ WriteFails(TRUE, Append(thr[t].messages, thr[t].msg))
    /\ thr' = [thr EXCEPT ![t] =
            IF thr[t].op = "inbound"
            THEN [@ EXCEPT !.pc = "confirm", !.result = "error", !.plan = <<>>]
            ELSE Returned(@, "error")]
    /\ UNCHANGED <<now, ticks, loop, nextUid, ops, delivered, deleted, disabled, running, wake_event, unseen, life>>

LoopSaveFails ==
    /\ loop.pc = "save"
    /\ \E cut \in BOOLEAN : WriteFails(cut, loop.remaining)
    /\ loop' = [LoopIdle EXCEPT !.pc = "sleep"]
    /\ UNCHANGED <<now, ticks, thr, nextUid, ops, delivered, deleted, disabled, running, wake_event, unseen, life>>

DeleteIdsWriteFails ==
    /\ thr[Web].pc = "delete_ids_write"
    /\ \E cut \in BOOLEAN :
            WriteFails(cut, WithoutIds(thr[Web].messages, thr[Web].message_ids))
    /\ thr' = [thr EXCEPT ![Web] = Returned(@, "error")]
    /\ UNCHANGED <<now, ticks, loop, nextUid, ops, delivered, deleted, disabled, running, wake_event, unseen, life>>

DeleteWordWriteFails ==
    /\ thr[Web].pc = "delete_word_write"
    /\ \E cut \in BOOLEAN :
            WriteFails(cut, WithoutResetWord(thr[Web].messages, thr[Web].reset_word))
    /\ thr' = [thr EXCEPT ![Web] = Returned(@, "error")]
    /\ UNCHANGED <<now, ticks, loop, nextUid, ops, delivered, deleted, disabled, running, wake_event, unseen, life>>

(***************************************************************************)
(* The writers one at a time, each write succeeding or failing.             *)
(***************************************************************************)
FailureNext ==
    \/ Tick(TickSteps)
    \/ Quiet /\ LoopLoad
    \/ LoopSend(SendOutcomes)
    \/ LoopSave
    \/ LoopSaveFails
    \/ Quiet /\ LoopPassIdle
    \/ LoopGetSleepTime
    \/ LoopWaitReturns
    \/ LoopClear
    \/ LoopSleepEnds
    \/ Quiet /\ Send
    \/ Add
    \/ \E t \in Threads : AddBreaks(t)
    \/ Quiet /\ DeleteIds
    \/ DeleteIdsWrite
    \/ DeleteIdsWriteFails
    \/ Quiet /\ DeleteWord
    \/ DeleteWordWrite
    \/ DeleteWordWriteFails

FailureSpec == Init /\ [][FailureNext]_vars

(***************************************************************************)
(* _send_message raising inside its try block (a stored message without a   *)
(* title, a request to the Briar API raising): the sends made before the    *)
(* exception stay made, the except clause of _send_message catches it and   *)
(* the call returns to the for loop of _process_due_messages like any       *)
(* other; loop.raised records that the pass has seen such a call.           *)
(***************************************************************************)
PcAfterUncaught(due) == "sleep"

PcAfterCaught(due) == IF Tail(due) = <<>> THEN "save" ELSE "send"

LoopSendRaises ==
    /\ loop.pc = "send"
    /\ delivered' = delivered \cup {Head(loop.due).uid}
    /\ \E outcome \in WideSendOutcomes :
        LET attempts == SendAttempts(Head(loop.due).recipients, outcome)
        IN  \E made \in 0..Len(attempts) :
                loop' = [loop EXCEPT !.due = Tail(@),
                                     !.pc = PcAfterCaught(loop.due),
                                     !.contacts = outcome.contacts,
                                     !.attempts = SubSeq(attempts, 1, made),
                                     !.raised = TRUE]
    /\ UNCHANGED <<now, ticks, store, file_exists, file_corrupt, thr, nextUid, ops, deleted, disabled, running, wake_event, unseen, life>>

(***************************************************************************)
(* The loop's whole life over a given store of plain messages, with the     *)
(* failures an iteration can meet: _send_message raising, the pass raising  *)
(* before or after its sends, the write of the pass failing, the sleep      *)
(* computation raising; the request thread may stop the scheduler.          *)
(***************************************************************************)
SurvivalNext ==
    \/ Tick(TickSteps)
    \/ LoopLoad
    \/ LoopSend(SendOutcomes)
    \/ LoopSendRaises
    \/ LoopSave
    \/ LoopSaveFails
    \/ LoopPassIdle
    \/ LoopGetSleepTime
    \/ LoopWaitReturns
    \/ LoopClear
    \/ LoopExit
    \/ LoopFail
    \/ LoopSleepEnds
    \/ StopStart
    \/ StopSet
    \/ StopJoin

SurvivalFairSpec ==
    DeliveryInit /\ [][SurvivalNext]_vars /\ WF_vars(LifecycleLoopStep)

(***************************************************************************)
(* The operations on a file that is absent or holds a cut-off text (of one  *)
(* plain message, of a switch's 2-hour warning and trigger, or of several   *)
(* of them), one operation at a time.  An inbound text returns as soon as  *)
(* it has tried to load the file, and once add_message has written the      *)
(* file it holds plain messages only, so no inbound text goes further.      *)
(***************************************************************************)
UnreadableInit ==
    /\ now = 0
    /\ ticks = 0
    /\ \/ file_exists = FALSE /\ file_corrupt = FALSE /\ store = <<>>
       \/ file_exists = TRUE /\ file_corrupt = TRUE /\ store \in StoresOf(
            Range(SchedulePlan(DateTime(0, 0), TwoHours + 1, "evac plan A", <<"K">>, ""))
            \cup {AddArgs("note", "hello", DateTime(1, 0), Broadcast, FALSE, FALSE, NoWord, 0)})
    /\ loop = LoopIdle
    /\ thr = [t \in Threads |-> ThreadIdle]
    /\ nextUid = Len(store) + 1
    /\ ops = 0
    /\ delivered = {}
    /\ deleted = {}
    /\ disabled = {}
    /\ running = TRUE
    /\ wake_event = FALSE
    /\ unseen = FALSE
    /\ life = LifeStart

UnreadableNext ==
    \/ Tick(TickSteps)
    \/ Quiet /\ LoopLoad
    \/ LoopSend(SendOutcomes)
    \/ LoopSave
    \/ Quiet /\ LoopPassIdle
    \/ LoopGetSleepTime
    \/ LoopWaitReturns
    \/ LoopClear
    \/ Quiet /\ Send
    \/ Add
    \/ Quiet /\ DeleteWord
    \/ DeleteWordWrite
    \/ Quiet /\ Inbound(InboundTexts)

UnreadableSpec == UnreadableInit /\ [][UnreadableNext]_vars

(***************************************************************************)
(* A switch armed one second ago with an interval of a day and a second,    *)
(* as schedule_dead_mans_switch stored it (24-hour warning, 2-hour warning, *)
(* trigger), and then left alone: the clock jumps to the times the          *)
(* messages fall due, singly or several at once, the loop makes its passes, *)
(* and the request thread schedules plain messages.                         *)
(***************************************************************************)
SwitchWord == <<"k">>

ArmedPlan == SchedulePlan(DateTime(0, 0), Day + 1, "evac plan A", SwitchWord, "")

ArmedStore == [i \in DOMAIN ArmedPlan |-> MessageData(i, 0, ArmedPlan[i])]

SwitchTickSteps == {TwoHours, Day - TwoHours, Day}

SwitchInit ==
    /\ now = 1
    /\ ticks = 0
    /\ store = ArmedStore
    /\ file_exists = TRUE
    /\ file_corrupt = FALSE
    /\ loop = LoopIdle
    /\ thr = [t \in Threads |-> ThreadIdle]
    /\ nextUid = Len(store) + 1
    /\ ops = 0
    /\ delivered = {}
    /\ deleted = {}
    /\ disabled = {}
    /\ running = TRUE
    /\ wake_event = FALSE
    /\ unseen = FALSE
    /\ life = LifeStart

SwitchNext ==
    \/ Tick(SwitchTickSteps)
    \/ LoopLoad
    \/ LoopSend(SendOutcomes)
    \/ LoopSave
    \/ LoopPassIdle
    \/ LoopGetSleepTime
    \/ LoopWaitReturns
    \/ LoopClear
    \/ Send
    \/ Add

SwitchSpec == SwitchInit /\ [][SwitchNext]_vars

(***************************************************************************)
(* The same armed switch receiving its reset word in texts, one text after  *)
(* the other on the event-listener thread, while the loop makes its passes; *)
(* every write succeeds.                                                    *)
(***************************************************************************)
ResetNext ==
    \/ Tick({TwoHours})
    \/ LoopLoad
    \/ LoopSend(SendOutcomes)
    \/ LoopSave
    \/ LoopPassIdle
    \/ LoopGetSleepTime
    \/ LoopWaitReturns
    \/ LoopClear
    \/ Inbound({<<"K">>})
    \/ GetContent
    \/ DmsDeleteRead
    \/ DmsDeleteWrite
    \/ Reschedule
    \/ Confirm
    \/ \E t \in Threads : AddRead(t) \/ AddWrite(t)

ResetSpec == SwitchInit /\ [][ResetNext]_vars

(***************************************************************************)
(* Switches armed through the entry points with a reset word of their own   *)
(* choice, and inbound texts that consist of such a word: the calls run one *)
(* after the other, and the loop makes its passes between them.             *)
(***************************************************************************)
WordArmInputs ==
    {ArmInput(1, "evac plan A", <<"K">>, ""),
     ArmInput(TwoHours + 1, "hello", <<"b", "e", "n", "d">>, "c1")}

WordNext ==
    \/ Tick(TickSteps)
    \/ Quiet /\ LoopLoad
    \/ LoopSend(SendOutcomes)
    \/ LoopSave
    \/ Quiet /\ LoopPassIdle
    \/ LoopGetSleepTime
    \/ LoopWaitReturns
    \/ LoopClear
    \/ Quiet /\ Arm(WordArmInputs)
    \/ Quiet /\ Inbound({<<"K">>, <<"b", "e", "n", "d">>})
    \/ GetContent
    \/ DmsDeleteRead
    \/ DmsDeleteWrite
    \/ Reschedule
    \/ Confirm
    \/ \E t \in Threads : AddRead(t) \/ AddWrite(t)

WordSpec == Init /\ [][WordNext]_vars

(***************************************************************************)
(* Vocabulary of the properties.                                            *)
(***************************************************************************)
MaxUid == 3 * MaxOps

WordMessages(messages, reset_word) ==
    {messages[i] : i \in {j \in DOMAIN messages : HasResetWord(messages[j], reset_word)}}

MainMessages(messages, reset_word) ==
    {messages[i] : i \in {j \in DOMAIN messages : IsMainMessage(messages[j], reset_word)}}

\* the loop thread takes a LoopSend step: it hands Head(loop.due) to _send_message
Sends == loop.pc = "send" /\ loop' # loop

\* thread t takes the AddWrite step that appends its message to the file
Appends(t) ==
    thr[t].pc = "add_write" /\ thr'[t].pc # "add_write" /\ thr'[t].result # "error"

\* the event-listener thread has reset a switch and is about to confirm it
ResetDone == thr[Evt].pc = "confirm" /\ thr[Evt].mode = "reset" /\ thr[Evt].result = "ok"

(***************************************************************************)
(* C1.  A switch's "Triggered" message that is in the store and due is      *)
(* eventually handed to the Notifier, unless a reset, a disable or a delete *)
(* removed it.                                                              *)
(***************************************************************************)
TriggerDue(uid) ==
    \E i \in DOMAIN store :
        /\ store[i].uid = uid
        /\ store[i].dead_mans_switch
        /\ store[i].title = TitleTriggered
        /\ IsDue(store[i], now)

C1_TriggerEventuallyDelivered ==
    \A uid \in 1..MaxUid : TriggerDue(uid) ~> (uid \in delivered \/ uid \in deleted)

(***************************************************************************)
(* C2.  Once a disable has removed a switch, and until the word is armed    *)
(* again, no message with its reset word is handed to the Notifier and none *)
(* is in the store.                                                         *)
(***************************************************************************)
C2_DisabledIsTerminal ==
    [][\A w \in disabled \cap disabled' :
          /\ WordMessages(store', w) = {}
          /\ Sends => ~HasResetWord(Head(loop.due), w)]_vars

(***************************************************************************)
(* C3.  A stored message leaves the store only when a delivery pass has     *)
(* handed it to the Notifier or a delete, reset or disable removed it.      *)
(***************************************************************************)
C3_NoLostUpdate ==
    [][\A i \in DOMAIN store :
          LET uid == store[i].uid
          IN  uid \notin Uids(store') => uid \in delivered' \/ uid \in deleted']_vars

(***************************************************************************)
(* C4.  A message is handed to the Notifier in at most one delivery pass,   *)
(* and a message that delivery or a delete removed from the store does not  *)
(* come back into it.                                                       *)
(***************************************************************************)
C4_AtMostOnce ==
    [][/\ Sends => Head(loop.due).uid \notin delivered
       /\ \A i \in DOMAIN store' :
            LET uid == store'[i].uid
            IN  uid \notin Uids(store) => uid \notin delivered \cup deleted]_vars

(***************************************************************************)
(* C5.  Every message the loop hands to the Notifier has a scheduled time   *)
(* no later than the clock value the pass read when it started, which is no *)
(* later than the time of the call.                                         *)
(***************************************************************************)
C5_OnlyDueIsSent ==
    [][Sends => /\ Head(loop.due).scheduled_timestamp <= loop.current_time
                /\ loop.current_time <= now]_vars

C5_Witness == loop.pc = "save" /\ delivered # {} /\ loop.remaining # <<>>

(***************************************************************************)
(* C6.  When schedule_dead_mans_switch returns to a caller that armed a     *)
(* switch at time start_time, the messages it created, the trigger written  *)
(* last, are: the trigger at start_time + interval alone for an interval of *)
(* at most 7200; the 2-hour warning 7200 earlier and the trigger for an     *)
(* interval above 7200 and at most 86400; the 24-hour warning 86400         *)
(* earlier, the 2-hour warning and the trigger above 86400.  Each is        *)
(* scheduled after start_time.                                              *)
(***************************************************************************)
ArmReturns ==
    /\ thr[Web].op = "arm"
    /\ thr[Web].pc = "add_write"
    /\ thr'[Web].pc = "idle"
    /\ thr'[Web].result = "ok"

Slots(created) == {<<created[i].title, created[i].scheduled_timestamp>> : i \in DOMAIN created}

ResetCompletes ==
    /\ thr[Evt].op = "inbound"
    /\ thr[Evt].mode = "reset"
    /\ Appends(Evt)
    /\ thr'[Evt].pc = "confirm"

C7_ResetRecoversContentAndClock ==
    [][ResetCompletes =>
        LET w == thr[Evt].reset_word
            before == thr[Evt].inbound_messages
            contents == {b.content : b \in MainMessages(before, w)}
            intervals == {b.original_interval_seconds : b \in WordMessages(before, w)}
            mains == MainMessages(store', w)
        IN  /\ Cardinality(mains) = 1
            /\ \A m \in mains :
                 /\ Cardinality(contents) = 1 => m.content \in contents
                 /\ Cardinality(intervals) = 1 =>
                      \A i \in intervals : m.scheduled_timestamp = thr[Evt].start_time + i]_vars

(***************************************************************************)
(* C8.  After a reset, every message of the reset word has the recipients   *)
(* the word's messages had before the reset.                                *)
(***************************************************************************)
C8_ResetKeepsRecipients ==
    ResetDone =>
        \A m \in WordMessages(store, thr[Evt].reset_word) :
            \A b \in WordMessages(thr[Evt].inbound_messages, thr[Evt].reset_word) :
                m.recipients = b.recipients

(***************************************************************************)
(* C9.  add_message appends no message whose scheduled time is not after    *)
(* the clock value it read.                                                 *)
(***************************************************************************)
C9_AddRejectsNonFuture ==
    [][\A t \in Threads :
          Appends(t) => thr[t].msg.scheduled_timestamp > thr[t].current_time]_vars

(***************************************************************************)
(* C10.  Arming with an empty reset word or an interval of at most 0        *)
(* returns failure at once and leaves the store and the file as they were.  *)
(***************************************************************************)
ArmCalledWithInvalidInput ==
    /\ thr[Web].pc = "idle"
    /\ ops' = ops + 1
    /\ thr'[Web].op = "arm"
    /\ thr'[Web].reset_word = <<>> \/ thr'[Web].interval_seconds <= 0

C10_InvalidArmRejected ==
    [][ArmCalledWithInvalidInput =>
        /\ thr'[Web].pc = "idle"
        /\ thr'[Web].result = "error"
        /\ store' = store
        /\ file_exists' = file_exists
        /\ nextUid' = nextUid]_vars

C10_Witness ==
    /\ thr[Web].op = "arm"
    /\ thr[Web].pc = "idle"
    /\ thr[Web].result = "error"
    /\ thr[Web].interval_seconds <= 0
    /\ store # <<>>

(***************************************************************************)
(* C11.  When an add_message call of schedule_dead_mans_switch fails and    *)
(* the arm returns failure, none of the messages the same arm has written   *)
(* is in the store.                                                         *)
(***************************************************************************)
ArmFails(t) ==
    /\ thr[t].op \in {"arm", "inbound"}
    /\ thr[t].pc = "add_write"
    /\ thr'[t].pc # "add_write"
    /\ thr'[t].result = "error"

C11_ArmAllOrNothing ==
    [][\A t \in Threads :
          ArmFails(t) =>
              \A i \in DOMAIN thr[t].created : thr[t].created[i].uid \notin Uids(store')]_vars

(***************************************************************************)
(* C12.  In every state of the store, the switch messages that share a      *)
(* reset word, compared without case, carry the same                        *)
(* original_interval_seconds, and at most one of them is the "Triggered"    *)
(* message.                                                                 *)
(***************************************************************************)
C12_SwitchIntegrity ==
    \A i, j \in DOMAIN store :
        (/\ IsActiveSwitchMessage(store[i])
         /\ IsActiveSwitchMessage(store[j])
         /\ Lower(store[i].reset_word) = Lower(store[j].reset_word))
        => /\ store[i].original_interval_seconds = store[j].original_interval_seconds
           /\ (store[i].title = TitleTriggered /\ store[j].title = TitleTriggered) => i = j

(***************************************************************************)
(* C13.  No two messages in the store have the same id.                     *)
(***************************************************************************)
C13_IdsUnique ==
    \A i, j \in DOMAIN store : store[i].id = store[j].id => i = j

(***************************************************************************)
(* C14.  A delete by reset word w loads the store and writes it back        *)
(* without the messages whose reset word equals w when case is ignored, the *)
(* others kept in order, and reports success, also when nothing matches and *)
(* when the file is absent; a second call with the same w right after the   *)
(* first finds nothing to remove and writes the store as the first call     *)
(* left it.                                                                 *)
(***************************************************************************)
WordMatches(msg, w) == Lower(msg.reset_word) = Lower(w)

WithoutWord(messages, w) ==
    LET Keep(msg) == ~WordMatches(msg, w) IN SelectSeq(messages, Keep)

SecondDeleteStarts ==
    /\ thr[Web].pc = "idle"
    /\ thr[Web].op = "delete_word"
    /\ thr[Web].result = "ok"
    /\ ops = 1
    /\ ops' = 2
    /\ thr'[Evt] = thr[Evt]
    /\ thr'[Web].op = "delete_word"
    /\ Lower(thr'[Web].reset_word) = Lower(thr[Web].reset_word)

C14_DeleteByResetWord ==
    [][/\ (thr[Web].pc = "idle" /\ thr'[Web].pc = "delete_word_write") =>
            thr'[Web].messages = store
       /\ (thr[Web].pc = "delete_word_write" /\ thr'[Web].pc # "delete_word_write") =>
            /\ store' = WithoutWord(thr[Web].messages, thr[Web].reset_word)
            /\ thr'[Web].result = "ok"
       /\ (thr[Evt].pc = "delete_read" /\ thr'[Evt].pc = "delete_write") =>
            thr'[Evt].messages = store
       /\ (thr[Evt].pc = "delete_write" /\ thr'[Evt].pc # "delete_write") =>
            /\ store' = WithoutWord(thr[Evt].messages, thr[Evt].reset_word)
            /\ thr[Evt].mode = "disable" => thr'[Evt].result = "ok"
       /\ (thr[Web].pc = "idle" /\ thr'[Web].op = "delete_word" /\ ops' = ops + 1
             /\ ~file_exists) =>
            /\ thr'[Web].pc = "idle"
            /\ thr'[Web].result = "ok"
            /\ store' = store
            /\ file_exists' = file_exists
       /\ (SecondDeleteStarts /\ file_exists) =>
            /\ thr'[Web].pc = "delete_word_write"
            /\ WithoutWord(thr'[Web].messages, thr'[Web].reset_word) = store]_vars

C14_Witness ==
    /\ thr[Web].op = "delete_word"
    /\ thr[Web].pc = "delete_word_write"
    /\ ops = 2
    /\ thr[Evt].op = "none"
    /\ deleted # {}
    /\ store # <<>>

(***************************************************************************)
(* C15.  The sleep the loop computes after a pass is the time until the     *)
(* earliest message scheduled after the current second, clamped to 1..300   *)
(* seconds, when such a message exists: it is within 1..300 and never       *)
(* longer than the greater of 1 and the time until that message.  When no   *)
(* message is pending, or the file is absent, it is 60 seconds.             *)
(***************************************************************************)
Pending == {i \in DOMAIN store : store[i].scheduled_timestamp > now}

UntilEarliest(i) ==
    /\ i \in Pending
    /\ \A j \in Pending : store[i].scheduled_timestamp <= store[j].scheduled_timestamp

SleepComputed == loop.pc = "get_sleep_time" /\ loop'.pc = "wait"

C15_SleepIsClamped ==
    [][SleepComputed =>
        IF file_exists /\ Pending # {}
        THEN \E i \in Pending :
                LET until == store[i].scheduled_timestamp - now
                IN  /\ UntilEarliest(i)
                    /\ loop'.sleep_time \in 1..300
                    /\ loop'.sleep_time <= (IF until > 1 THEN until ELSE 1)
                    /\ until \in 1..300 => loop'.sleep_time = until
                    /\ until > 300 => loop'.sleep_time = 300
        ELSE loop'.sleep_time = 60]_vars

C15_Witness ==
    /\ loop.pc = "wait"
    /\ loop.sleep_time = 199
    /\ \E i \in DOMAIN store : store[i].scheduled_timestamp > now + 300

(***************************************************************************)
(* C16.  A switch's 24-hour or 2-hour warning, whether an arming or a reset *)
(* created it, has that warning's fixed text as content, and the armed      *)
(* main message is the content of "Triggered" messages only.  The messages  *)
(* looked at are those in the store and those the loop is sending.          *)
(***************************************************************************)
ArmedPayloads == {a.main_message : a \in SerialArmInputs}

SwitchMessages ==
    {msg \in Range(store) \cup Range(loop.due) : msg.dead_mans_switch}

C16_WarningsCarryNoPayload ==
    \A msg \in SwitchMessages :
        /\ msg.title = Title24h =>
              msg.content = "This is a 24-hour warning. The dead man's switch will trigger in 24 hours unless reset with the correct word."
        /\ msg.title = Title2h =>
              msg.content = "This is a 2-hour warning. The dead man's switch will trigger in 2 hours unless reset with the correct word."
        /\ msg.content \in ArmedPayloads => msg.title = TitleTriggered

C16_Witness ==
    /\ thr[Evt].op = "inbound"
    /\ thr[Evt].mode = "reset"
    /\ thr[Evt].result = "ok"
    /\ thr[Evt].pc = "confirm"
    /\ \E i, j, k \in DOMAIN store :
          /\ store[i].title = Title24h
          /\ store[j].title = Title2h
          /\ store[k].title = TitleTriggered
          /\ store[k].content \in ArmedPayloads
          /\ store[i].scheduled_timestamp > 0

(***************************************************************************)
(* C17.  A reset whose word matched a stored message, but for which the     *)
(* store holds no "Triggered" message of the word with content, fails: the  *)
(* sender gets the failure confirmation, and the reset's steps delete       *)
(* nothing from the store and add nothing to it.                            *)
(***************************************************************************)
Recoverable(messages, reset_word) ==
    {m \in MainMessages(messages, reset_word) : m.content # ""}

ResetFindsNoContent ==
    /\ thr[Evt].pc = "get_content"
    /\ thr'[Evt] # thr[Evt]
    /\ Recoverable(Load, thr[Evt].reset_word) = {}

FailedResetConfirms ==
    /\ thr[Evt].pc = "confirm"
    /\ thr[Evt].mode = "reset"
    /\ thr[Evt].main_message = ""
    /\ thr'[Evt] # thr[Evt]

C17_FailedResetChangesNothing ==
    [][/\ ResetFindsNoContent =>
            /\ thr'[Evt].pc = "confirm"
            /\ thr'[Evt].result = "error"
            /\ thr'[Evt].main_message = ""
            /\ store' = store
            /\ file_exists' = file_exists
       /\ FailedResetConfirms =>
            /\ thr'[Evt].pc = "idle"
            /\ thr'[Evt].result = "error"
            /\ thr'[Evt].confirmation = "Failed to reset dead man's switch."
            /\ thr'[Evt].confirmed_to = thr[Evt].contact_id
            /\ store' = store
            /\ file_exists' = file_exists]_vars

C17_Witness ==
    /\ thr[Evt].op = "inbound"
    /\ thr[Evt].pc = "idle"
    /\ thr[Evt].confirmation = "Failed to reset dead man's switch."
    /\ thr[Evt].confirmed_to = "c2"
    /\ WordMessages(store, thr[Evt].reset_word) # {}
    /\ MainMessages(store, thr[Evt].reset_word) = {}

(***************************************************************************)
(* C18.  An add_message call for a time after the current second loads the  *)
(* store and writes it back followed by one message: the message has the id *)
(* the call returns, the title and content given, and the given time as a   *)
(* whole-second timestamp.  The messages the call loaded are written back   *)
(* unchanged and in their order.                                            *)
(***************************************************************************)
GivenFuture(t) == Head(thr[t].plan).scheduled_time.seconds > now

LoadsForAdd(t) == thr[t].pc = "add_read" /\ thr'[t].pc = "add_write" /\ GivenFuture(t)

AppendsFuture(t) ==
    Appends(t) /\ Head(thr[t].plan).scheduled_time.seconds > thr[t].current_time

C18_AddThenLoad ==
    [][\A t \in Threads :
        /\ LoadsForAdd(t) =>
              LET given == Head(thr[t].plan)
                  made == thr'[t].msg
              IN  /\ thr'[t].messages = Load
                  /\ made.title = given.title
                  /\ made.content = given.content
                  /\ made.scheduled_timestamp = given.scheduled_time.seconds
        /\ AppendsFuture(t) =>
              LET before == thr[t].messages
                  n == Len(before)
              IN  /\ file_exists'
                  /\ Len(store') = n + 1
                  /\ store'[n + 1] = thr[t].msg
                  /\ store'[n + 1].id = thr[t].msg.id
                  /\ \A i \in 1..n : store'[i] = before[i]]_vars

C18_Witness ==
    /\ thr[Evt].op = "inbound"
    /\ thr[Evt].pc = "add_read"
    /\ thr[Evt].created # <<>>
    /\ thr[Evt].plan[1].scheduled_time.microsecond > 0
    /\ store # <<>>
    /\ store[Len(store)] = thr[Evt].created[Len(thr[Evt].created)]
    /\ Len(store) > 1

(***************************************************************************)
(* C19.  Every stored message that is not a dead man's switch message has   *)
(* the empty reset word, also when the send that stored it was given one.   *)
(***************************************************************************)
C19_PlainMessageHasNoResetWord ==
    \A i \in DOMAIN store : ~store[i].dead_mans_switch => store[i].reset_word = NoWord

C19_Witness ==
    /\ thr[Web].op = "send"
    /\ thr[Web].pc = "idle"
    /\ thr[Web].result = "ok"
    /\ thr[Web].reset_word # NoWord
    /\ \E i, j \in DOMAIN store : ~store[i].dead_mans_switch /\ store[j].dead_mans_switch

(***************************************************************************)
(* C20.  At most one load-then-save sequence on the file is in progress at  *)
(* a time: a thread that has loaded the list for add_message, for a delete  *)
(* by ids or for either delete by reset word has saved it before another    *)
(* thread, or the loop's delivery pass, loads the list.                     *)
(***************************************************************************)
CallerInCycle(t) ==
    thr[t].pc \in {"add_write", "delete_ids_write", "delete_word_write", "delete_write"}

LoopInCycle == loop.pc \in {"send", "save"}

CyclesInProgress ==
    Cardinality({t \in Threads : CallerInCycle(t)}) + (IF LoopInCycle THEN 1 ELSE 0)

C20_StoreMutualExclusion == CyclesInProgress <= 1

(***************************************************************************)
(* C21.  When a reset of word w has written its last message, the messages  *)
(* of w in the store are those of a fresh switch armed at the time the      *)
(* reset read, with the interval and the content the word's messages had    *)
(* before the reset: one, two or three by the interval's bracket, each      *)
(* carrying that interval; no message of w from before the reset is left,   *)
(* and the messages of other words or of none are as they were, in order.   *)
(***************************************************************************)
Shape(msg) ==
    <<msg.title, msg.content, msg.scheduled_timestamp, msg.original_interval_seconds>>

FreshSwitch(start, interval, content) ==
    (IF interval > 86400 THEN {<<Title24h, Content24h, start + interval - 86400, interval>>} ELSE {})
    \cup (IF interval > 7200 THEN {<<Title2h, Content2h, start + interval - 7200, interval>>} ELSE {})
    \cup {<<TitleTriggered, content, start + interval, interval>>}

C21_ResetRecreatesSwitch ==
    [][ResetCompletes =>
        LET w == thr[Evt].reset_word
            before == thr[Evt].inbound_messages
            contents == {b.content : b \in MainMessages(before, w)}
            intervals == {b.original_interval_seconds : b \in WordMessages(before, w)}
            after == WordMessages(store', w)
        IN  (Cardinality(contents) = 1 /\ Cardinality(intervals) = 1) =>
                \E c \in contents, i \in intervals :
                    /\ {Shape(m) : m \in after} = FreshSwitch(thr[Evt].start_time, i, c)
                    /\ Cardinality(after) = Cardinality(FreshSwitch(thr[Evt].start_time, i, c))
                    /\ \A m \in after : m.uid \notin Uids(before)
                    /\ WithoutWord(store', w) = WithoutWord(before, w)]_vars

(***************************************************************************)
(* C22.  The loop is never blocked in its wait, with the wake event not     *)
(* set, on a sleep time it computed before an add_message or a delete by    *)
(* reset word completed: after every such change the loop computes its      *)
(* sleep time anew before it waits out a timer.                             *)
(***************************************************************************)
BlockedOnTimer == loop.pc = "wait" /\ ~wake_event

C22_NoLostWakeUp == BlockedOnTimer => ~unseen

(***************************************************************************)
(* C23.  Once self.running is false and the loop is between two passes      *)
(* (waiting, clearing the event, at the while test, in the fallback sleep)  *)
(* or has ended, it starts no pass: it stays between passes or ends, and    *)
(* no message is handed to _send_message.                                   *)
(***************************************************************************)
BetweenPasses == loop.pc \in {"wait", "clear", "top", "sleep", "exit"}

C23_StopHonouredBeforeWork ==
    [][(~running /\ BetweenPasses) => (BetweenPasses' /\ delivered' = delivered)]_vars

C23_Witness ==
    /\ ~running
    /\ loop.pc = "exit"
    /\ \E i \in DOMAIN store : IsDue(store[i], now)

(***************************************************************************)
(* C24.  After stop has cleared self.running the loop thread ends, wherever *)
(* it was; and stop returns, also when the loop has not ended yet.          *)
(***************************************************************************)
StopCalled == thr[Web].op = "stop"

C24_StopTerminatesLoop ==
    /\ StopCalled ~> loop.pc = "exit"
    /\ StopCalled ~> thr[Web].pc = "idle"

C24_Witness ==
    /\ thr[Web].op = "stop"
    /\ thr[Web].pc = "idle"
    /\ loop.pc = "save"

(***************************************************************************)
(* C25.  A call of process_incoming_message with a non-empty text whose     *)
(* lower-cased form contains the lower-cased reset word of a stored switch  *)
(* message disables that switch when the lower-cased text contains "end"    *)
(* and resets it otherwise.  A disable writes the store without the word's  *)
(* messages and adds none; a reset that succeeds ends by writing a new      *)
(* "Triggered" message of the word.                                         *)
(***************************************************************************)
InboundCalled == thr[Evt].pc = "idle" /\ thr'[Evt].op = "inbound" /\ ops' = ops + 1

Names(text, msg) ==
    /\ msg.dead_mans_switch
    /\ msg.reset_word # NoWord
    /\ Contains(Lower(msg.reset_word), Lower(text))

NamesArmedSwitch(text) ==
    text # <<>> /\ file_exists /\ \E i \in DOMAIN store : Names(text, store[i])

SaysEnd(text) ==
    \E i \in 1..(Len(text) - 2) : <<LowerChar(text[i]), LowerChar(text[i + 1]),
                                    LowerChar(text[i + 2])>> = <<"e", "n", "d">>

DisableConfirms == thr[Evt].mode = "disable" /\ thr[Evt].pc = "confirm"

C25_ResetOrDisable ==
    [][/\ (InboundCalled /\ NamesArmedSwitch(thr'[Evt].text)) =>
            /\ thr'[Evt].pc # "idle"
            /\ thr'[Evt].mode = (IF SaysEnd(thr'[Evt].text) THEN "disable" ELSE "reset")
            /\ Names(thr'[Evt].text, [dead_mans_switch |-> TRUE,
                                      reset_word |-> thr'[Evt].reset_word])
       /\ thr[Evt].mode = "disable" =>
            thr'[Evt].pc \in {"delete_read", "delete_write", "confirm", "idle"}
       /\ (thr[Evt].mode = "disable" /\ thr[Evt].pc # "confirm" /\ thr'[Evt].pc = "confirm") =>
            /\ thr'[Evt].result = "ok"
            /\ WordMessages(store', thr[Evt].reset_word) = {} \/ store' = store
       /\ ResetCompletes =>
            /\ IsMainMessage(store'[Len(store')], thr[Evt].reset_word)
            /\ store'[Len(store')].uid \notin Uids(thr[Evt].inbound_messages)]_vars

C25_Witness ==
    /\ DisableConfirms
    /\ thr[Evt].text = <<"K", " ", "E", "N", "D">>
    /\ thr[Evt].reset_word = <<"k">>
    /\ Len(thr[Evt].inbound_messages) = 3
    /\ \E i \in DOMAIN store : store[i].reset_word = <<"b">>

(***************************************************************************)
(* C26.  One call of process_incoming_message acts for one reset word: the  *)
(* word is fixed when the call finds it, every write of the call differs    *)
(* from the list it loaded only in messages of that word, and when the call *)
(* confirms, the messages of every other switch and the plain messages are  *)
(* those the call found, in order, also when the text names several armed   *)
(* switches.                                                                *)
(***************************************************************************)
InboundWrites ==
    /\ thr[Evt].op = "inbound"
    /\ \/ thr[Evt].pc = "delete_write" /\ thr'[Evt].pc # "delete_write"
       \/ Appends(Evt)

InboundConfirms == thr[Evt].op = "inbound" /\ thr[Evt].pc = "confirm" /\ thr'[Evt].pc = "idle"

NamedSwitches(text, messages) ==
    {Lower(messages[i].reset_word) : i \in {j \in DOMAIN messages : Names(text, messages[j])}}

C26_FirstMatchOnly ==
    [][/\ (thr[Evt].op = "inbound" /\ thr[Evt].pc # "idle") =>
            thr'[Evt].reset_word = thr[Evt].reset_word
       /\ InboundWrites =>
            WithoutWord(store', thr[Evt].reset_word)
                = WithoutWord(thr[Evt].messages, thr[Evt].reset_word)
       /\ InboundConfirms =>
            WithoutWord(store, thr[Evt].reset_word)
                = WithoutWord(thr[Evt].inbound_messages, thr[Evt].reset_word)]_vars

C26_Witness ==
    /\ thr[Evt].op = "inbound"
    /\ thr[Evt].pc = "confirm"
    /\ thr[Evt].result = "ok"
    /\ Cardinality(NamedSwitches(thr[Evt].text, thr[Evt].inbound_messages)) = 2
    /\ \E w \in NamedSwitches(thr[Evt].text, thr[Evt].inbound_messages) :
            /\ w # thr[Evt].reset_word
            /\ WordMessages(store, w) # {}
            /\ WordMessages(store, w) = WordMessages(thr[Evt].inbound_messages, w)

(***************************************************************************)
(* C27.  A call of process_incoming_message whose text is empty, or that    *)
(* finds no file, or whose lower-cased text contains the reset word of no   *)
(* stored switch message (with or without "end" in it), returns at once:    *)
(* it writes nothing, adds nothing, leaves the wake event as it was and     *)
(* sends no confirmation.                                                   *)
(***************************************************************************)
C27_IrrelevantTextIsNoOp ==
    [][(InboundCalled /\ ~NamesArmedSwitch(thr'[Evt].text)) =>
            /\ thr'[Evt].pc = "idle"
            /\ thr'[Evt].confirmation = "none"
            /\ thr'[Evt].confirmed_to = ""
            /\ UNCHANGED <<store, file_exists, file_corrupt, wake_event, nextUid, deleted, disabled>>]_vars

C27_Witness ==
    /\ thr[Evt].op = "inbound"
    /\ thr[Evt].pc = "idle"
    /\ thr[Evt].text = <<"e", "n", "d">>
    /\ thr[Evt].confirmation = "none"
    /\ ops = 1
    /\ \E i \in DOMAIN store : IsActiveSwitchMessage(store[i])

(***************************************************************************)
(* C28.  A call of process_incoming_message that found a reset word sends   *)
(* one confirmation, as its last step and not before: to the contact the    *)
(* text came from, with the text of a disable after a disable and of a      *)
(* reset after a reset, the success text exactly when the disable ran or    *)
(* the reset wrote the switch's new "Triggered" message.                    *)
(***************************************************************************)
InboundInProgress == thr[Evt].op = "inbound" /\ thr[Evt].pc # "idle"

Rearmed(created, reset_word) ==
    created # <<>> /\ IsMainMessage(created[Len(created)], reset_word)

C28_OneConfirmationToSender ==
    [][/\ (InboundCalled /\ thr'[Evt].pc # "idle") =>
            thr'[Evt].confirmation = "none" /\ thr'[Evt].contact_id \in InboundSenders
       /\ (InboundInProgress /\ thr'[Evt].pc # "idle") =>
            thr'[Evt].confirmation = "none" /\ thr'[Evt].contact_id = thr[Evt].contact_id
       /\ (InboundInProgress /\ thr'[Evt].pc = "idle") =>
            /\ thr[Evt].pc = "confirm"
            /\ thr'[Evt].confirmed_to = thr[Evt].contact_id
            /\ thr[Evt].mode = "disable" =>
                 /\ thr[Evt].created = <<>>
                 /\ thr'[Evt].confirmation = "Dead man's switch has been permanently disabled."
            /\ (thr[Evt].mode = "reset" /\ Rearmed(thr[Evt].created, thr[Evt].reset_word)) =>
                 thr'[Evt].confirmation = "Dead man's switch has been reset and timer restarted."
            /\ (thr[Evt].mode = "reset" /\ ~Rearmed(thr[Evt].created, thr[Evt].reset_word)) =>
                 thr'[Evt].confirmation = "Failed to reset dead man's switch."]_vars

C28_Witness ==
    /\ thr[Evt].op = "inbound"
    /\ thr[Evt].pc = "idle"
    /\ thr[Evt].confirmation = "Failed to reset dead man's switch."
    /\ thr[Evt].confirmed_to = "c2"
    /\ \E i \in DOMAIN store :
            /\ HasResetWord(store[i], thr[Evt].reset_word)
            /\ store[i].recipients = Broadcast

(***************************************************************************)
(* C29.  A pass of the loop that finds no message due writes nothing.  A    *)
(* pass that finds one splits the list it loaded into the due messages and  *)
(* the others, each in the loaded order; every send, whatever its outcome,  *)
(* takes one message off the due list and leaves the others alone; and the  *)
(* pass ends by writing exactly the others.                                 *)
(***************************************************************************)
NotYetDue(msg) == msg.scheduled_timestamp > now

DueNow(msg) == msg.scheduled_timestamp <= now

PassFindsNothing == loop.pc = "top" /\ loop'.pc = "get_sleep_time"

PassLoads == loop.pc = "top" /\ loop'.pc = "send"

PassWrites == loop.pc = "save" /\ loop'.pc = "get_sleep_time"

C29_PassWritesNotDue ==
    [][/\ PassFindsNothing =>
            /\ UNCHANGED <<store, file_exists, file_corrupt>>
            /\ file_exists => \A i \in DOMAIN store : NotYetDue(store[i])
       /\ PassLoads =>
            /\ file_exists
            /\ loop'.due = SelectSeq(store, DueNow)
            /\ loop'.due # <<>>
            /\ loop'.remaining = SelectSeq(store, NotYetDue)
            /\ UNCHANGED <<store, file_exists, file_corrupt>>
       /\ Sends =>
            /\ loop'.due = Tail(loop.due)
            /\ loop'.remaining = loop.remaining
            /\ Head(loop.due).uid \notin Uids(loop'.remaining)
       /\ PassWrites =>
            /\ loop.due = <<>>
            /\ store' = loop.remaining]_vars

C29_Witness ==
    /\ loop.pc = "get_sleep_time"
    /\ Cardinality(delivered) = 2
    /\ Len(store) = 1
    /\ NotYetDue(store[1])
    /\ thr[Web].op = "none"

(***************************************************************************)
(* C30.  When the loop delivers a due message that has a recipient list,    *)
(* the send attempts it makes are, in the order of the list, one for each   *)
(* name that some fetched contact carries, addressed to a contact of that   *)
(* name, whether or not an earlier name was unknown or an earlier attempt   *)
(* failed; and the message is not among those the pass will write back.     *)
(***************************************************************************)
Resolves(name, contacts) == \E i \in DOMAIN contacts : contacts[i].name = name

SentMessage == Head(loop.due)

ResolvingNames ==
    LET resolves(name) == Resolves(name, loop'.contacts)
    IN  SelectSeq(SentMessage.recipients.names, resolves)

UidOf(title) == (CHOOSE i \in DOMAIN ArmedStore : ArmedStore[i].title = title)

SendsSwitchMessage(title) ==
    Sends /\ SentMessage.dead_mans_switch /\ SentMessage.title = title

InPass == loop.pc \in {"send", "save"}

C31_SwitchDeliveryOrder ==
    [][/\ SendsSwitchMessage(Title24h) =>
            delivered \cap {UidOf(Title24h), UidOf(Title2h), UidOf(TitleTriggered)} = {}
       /\ SendsSwitchMessage(Title2h) =>
            delivered \cap {UidOf(Title24h), UidOf(Title2h), UidOf(TitleTriggered)}
                = {UidOf(Title24h)}
       /\ SendsSwitchMessage(TitleTriggered) =>
            delivered \cap {UidOf(Title24h), UidOf(Title2h), UidOf(TitleTriggered)}
                = {UidOf(Title24h), UidOf(Title2h)}
       /\ (UidOf(TitleTriggered) \in delivered /\ ~InPass) =>
            WordMessages(store, SwitchWord) = {}]_vars

(***************************************************************************)
(* C32.  When a write of the file by add_message, by the delivery pass, by  *)
(* the delete by reset word or by the delete by ids fails, the file         *)
(* afterwards parses and holds either the list it held before or the list   *)
(* the writer meant to write.                                               *)
(***************************************************************************)
PassWriteFailed == loop.pc = "save" /\ loop'.pc = "sleep"

CallWriteFailed(t) ==
    /\ thr[t].pc \in {"add_write", "delete_ids_write", "delete_word_write"}
    /\ thr'[t].pc = "idle"
    /\ thr'[t].result = "error"

MeantToWrite(t) ==
    IF thr[t].pc = "add_write" THEN Append(thr[t].messages, thr[t].msg)
    ELSE IF thr[t].pc = "delete_word_write"
    THEN WithoutResetWord(thr[t].messages, thr[t].reset_word)
    ELSE LET Keep(msg) == msg.id \notin thr[t].message_ids
         IN  SelectSeq(thr[t].messages, Keep)

C32_WritesAtomic ==
    [][/\ PassWriteFailed =>
            /\ ~file_corrupt'
            /\ Load' \in {Load, loop.remaining}
       /\ \A t \in Threads : CallWriteFailed(t) =>
            /\ ~file_corrupt'
            /\ Load' \in {Load, MeantToWrite(t)}]_vars

(***************************************************************************)
(* C33.  While the file is absent or does not parse: a delivery pass sends  *)
(* nothing and writes nothing; the sleep computation gives the default      *)
(* interval; a delete by reset word returns success at once and writes      *)
(* nothing; an inbound text is dropped without a write and without a        *)
(* confirmation; and add_message succeeds and leaves a file that parses     *)
(* and holds the new message alone.                                         *)
(***************************************************************************)
Unreadable == ~file_exists \/ file_corrupt

FileUntouched == UNCHANGED <<store, file_exists, file_corrupt>>

PassStarts == loop.pc = "top" /\ loop' # loop

SleepIsComputed == loop.pc = "get_sleep_time" /\ loop' # loop

DeleteWordCalled ==
    /\ thr[Web].pc = "idle"
    /\ ops' = ops + 1
    /\ thr'[Evt] = thr[Evt]
    /\ thr'[Web].op = "delete_word"

InboundArrives ==
    /\ thr[Evt].pc = "idle"
    /\ ops' = ops + 1
    /\ thr'[Web] = thr[Web]
    /\ thr'[Evt].op = "inbound"

C33_UnreadableReadsAsEmpty ==
    [][Unreadable =>
        /\ PassStarts =>
            /\ loop'.pc = "get_sleep_time"
            /\ delivered' = delivered
            /\ FileUntouched
        /\ SleepIsComputed => loop'.sleep_time = DefaultSleepSeconds
        /\ DeleteWordCalled =>
            /\ thr'[Web].pc = "idle"
            /\ thr'[Web].result = "ok"
            /\ FileUntouched
        /\ InboundArrives =>
            /\ thr'[Evt].pc = "idle"
            /\ thr'[Evt].confirmation = "none"
            /\ FileUntouched
        /\ \A t \in Threads : Appends(t) =>
            /\ thr'[t].result = "ok"
            /\ file_exists' /\ ~file_corrupt'
            /\ store' = <<thr[t].msg>>]_vars

C33_Witness ==
    /\ thr[Web].op = "send"
    /\ thr[Web].result = "ok"
    /\ file_exists /\ ~file_corrupt
    /\ Len(store) = 1
    /\ store[1].uid > 1
    /\ thr[Evt].op = "inbound"
    /\ ops = 2
    /\ loop.pc = "wait"
    /\ loop.sleep_time = MinSleepSeconds

(***************************************************************************)
(* C34.  The write of either delete by reset word leaves, of the list the   *)
(* call loaded, exactly the messages that are not both flagged as dead      *)
(* man's switch and of the given word (letter case ignored), each as it     *)
(* was and in the loaded order; and the scheduler's delete has the wake     *)
(* event set when it returns from its write.                                *)
(***************************************************************************)
IsOfSwitch(msg, w) == msg.dead_mans_switch /\ Lower(msg.reset_word) = Lower(w)

OthersOf(messages, w) ==
    LET Other(msg) == ~IsOfSwitch(msg, w) IN SelectSeq(messages, Other)

SchedulerDeleteWrites ==
    thr[Web].pc = "delete_word_write" /\ thr'[Web].pc = "idle" /\ thr'[Web].result = "ok"

SwitchDeleteWrites == thr[Evt].pc = "delete_write" /\ thr'[Evt].pc # "delete_write"

C34_DeleteByResetWordFrame ==
    [][/\ SchedulerDeleteWrites =>
            /\ store' = OthersOf(thr[Web].messages, thr[Web].reset_word)
            /\ Uids(thr[Web].messages) \ Uids(store') \subseteq deleted'
            /\ wake_event'
       /\ SwitchDeleteWrites =>
            /\ store' = OthersOf(thr[Evt].messages, thr[Evt].reset_word)
            /\ Uids(thr[Evt].messages) \ Uids(store') \subseteq deleted']_vars

C34_Witness ==
    /\ thr[Web].op = "delete_word"
    /\ thr[Web].pc = "idle"
    /\ thr[Web].result = "ok"
    /\ deleted # {}
    /\ Len(store) = 2
    /\ store[1].uid < store[2].uid
    /\ \E i \in DOMAIN store : store[i].dead_mans_switch
    /\ \E i \in DOMAIN store : ~store[i].dead_mans_switch
    /\ wake_event
    /\ ops = 1

(***************************************************************************)
(* C35.  A call of the delete by ids either goes on to its write, and then  *)
(* it was given ids, the file was there and it holds the list it loaded     *)
(* from it, or returns failure at once; in both cases the call itself       *)
(* leaves the file alone.  Its write leaves, of the loaded list, exactly    *)
(* the messages whose id is not among the ids, each as it was and in the    *)
(* loaded order, and the count it reports is the number of messages it      *)
(* left out.                                                                *)
(***************************************************************************)
DeleteIdsCalled ==
    /\ thr[Web].pc = "idle"
    /\ ops' = ops + 1
    /\ thr'[Evt] = thr[Evt]
    /\ thr'[Web].op = "delete_ids"

DeleteIdsWrites ==
    thr[Web].pc = "delete_ids_write" /\ thr'[Web].pc = "idle" /\ thr'[Web].result = "ok"

IdNotIn(messages, ids) == {i \in DOMAIN messages : messages[i].id \notin ids}

C35_DeleteByIds ==
    [][/\ DeleteIdsCalled =>
            /\ FileUntouched
            /\ \/ /\ thr'[Web].pc = "delete_ids_write"
                  /\ thr'[Web].message_ids # {}
                  /\ file_exists
                  /\ thr'[Web].messages = store
               \/ /\ thr'[Web].pc = "idle"
                  /\ thr'[Web].result = "error"
                  /\ thr'[Web].deleted_count = 0
       /\ DeleteIdsWrites =>
            LET messages == thr[Web].messages
                left == IdNotIn(messages, thr[Web].message_ids)
            IN  /\ Len(store') = Cardinality(left)
                /\ \A k \in DOMAIN store' :
                        /\ store'[k].id \notin thr[Web].message_ids
                        /\ \E i \in left :
                                /\ store'[k] = messages[i]
                                /\ Cardinality({j \in left : j < i}) = k - 1
                /\ thr'[Web].deleted_count = Len(messages) - Cardinality(left)]_vars

C35_Witness ==
    /\ thr[Web].op = "delete_ids"
    /\ thr[Web].pc = "idle"
    /\ thr[Web].result = "ok"
    /\ thr[Web].deleted_count = 2
    /\ Len(store) = 1
    /\ loop.pc = "top"
    /\ delivered = {}

(***************************************************************************)
(* C36.  When the second of two texts carrying an armed switch's reset word *)
(* has been handled, the store holds one whole switch for the word: the     *)
(* second reset finds the trigger's content, and when it has written its    *)
(* last message the word has exactly one trigger, one 2-hour warning if its *)
(* interval is above two hours and one 24-hour warning if it is above a     *)
(* day.                                                                     *)
(***************************************************************************)
SecondResetFindsNoContent ==
    thr[Evt].pc = "get_content" /\ thr'[Evt].pc = "confirm" /\ ops = 2

SecondResetCompletes == ResetCompletes /\ ops = 2

Titled(msgs, title) == {m \in msgs : m.title = title}

C36_RepeatedResetIsSafe ==
    [][/\ ~SecondResetFindsNoContent
       /\ SecondResetCompletes =>
            LET after == WordMessages(store', thr[Evt].reset_word)
                interval == thr[Evt].interval_seconds
            IN  /\ Cardinality(Titled(after, TitleTriggered)) = 1
                /\ Cardinality(Titled(after, Title2h)) = (IF interval > 7200 THEN 1 ELSE 0)
                /\ Cardinality(Titled(after, Title24h)) = (IF interval > 86400 THEN 1 ELSE 0)
                /\ Cardinality(after) = Cardinality(Titled(after, TitleTriggered))
                        + Cardinality(Titled(after, Title2h))
                        + Cardinality(Titled(after, Title24h))]_vars

(***************************************************************************)
(* C37.  Every armed switch can be reset: when the store holds the          *)
(* "Triggered" message of a switch armed with a reset word the entry points *)
(* accept, and a text that consists of exactly that word arrives,           *)
(* process_incoming_message takes the reset branch for that word with the   *)
(* interval the switch was armed with, and not the disable branch.          *)
(***************************************************************************)
ArmedWith(reset_word) ==
    /\ Readable
    /\ \E a \in WordArmInputs :
            /\ a.reset_word = reset_word
            /\ SwitchInputValid(a.reset_word, a.interval_seconds)
            /\ \E i \in DOMAIN store :
                    /\ IsMainMessage(store[i], reset_word)
                    /\ store[i].original_interval_seconds = a.interval_seconds

C37_ArmedSwitchCanBeReset ==
    [][(InboundArrives /\ ArmedWith(thr'[Evt].text)) =>
            /\ thr'[Evt].mode = "reset"
            /\ thr'[Evt].pc = "get_content"
            /\ thr'[Evt].reset_word = Lower(thr'[Evt].text)]_vars

(***************************************************************************)
(* C38.  At most one loop thread is inside a delivery pass at any time,     *)
(* whatever calls of start, stop, get_scheduler and stop_scheduler have     *)
(* been made.                                                               *)
(***************************************************************************)
LaterInPass == {k \in DOMAIN life.loops : life.loops[k].pc \in {"send", "save"}}

LoopsInPass == Cardinality(LaterInPass) + (IF InPass THEN 1 ELSE 0)

C38_SingleLoop == LoopsInPass <= 1

(***************************************************************************)
(* C39.  The loop survives failures.  The loop thread ends only when        *)
(* self.running is false; an exception in an iteration sends it into its    *)
(* fallback sleep, from which it comes back to the while test.  A call of   *)
(* _send_message, whether it returns normally or has caught an exception,   *)
(* is followed by the call for the next due message of the pass, or by the  *)
(* pass's write when no due message is left.                                *)
(***************************************************************************)
LoopEnds == loop.pc # "exit" /\ loop'.pc = "exit"

SendReturns == loop.pc = "send" /\ loop' # loop

C39_LoopSurvivesFailures ==
    /\ [][/\ LoopEnds => ~running
          /\ SendReturns =>
                /\ Head(loop.due).uid \in delivered'
                /\ loop'.due = Tail(loop.due)
                /\ loop'.pc = (IF loop'.due = <<>> THEN "save" ELSE "send")]_vars
    /\ (loop.pc = "sleep") ~> (loop.pc = "top")

C39_Witness ==
    /\ loop.pc = "save"
    /\ loop.raised
    /\ loop.attempts # <<>>
    /\ Cardinality(delivered) >= 2
    /\ running
====
